---- MODULE Spec2Model ----
(***************************************************************************)
(* PocketLlama: the inference orchestrator (InferenceEngine), the context  *)
(* window manager (ContextWindowManager) and their text post-processing,   *)
(* as state machines.  Text is a sequence of one-character strings, so     *)
(* that trimming, marker stripping and truncation are computed character   *)
(* by character as the JavaScript does.                                    *)
(***************************************************************************)
EXTENDS Integers, Sequences, FiniteSets, Bags, TLC

(***************************************************************************)
(* Text primitives (JavaScript string semantics on character sequences)    *)
(***************************************************************************)

\* The characters the regular-expression class \s and String.trim() treat as
\* whitespace, restricted to the three the model's texts use.
WS == {" ", "\t", "\n"}

IsWS(c) == c \in WS

AllWS(s) == \A i \in 1..Len(s) : IsWS(s[i])

RECURSIVE TrimEnd(_)
TrimEnd(s) ==
    IF s = <<>> THEN <<>>
    ELSE IF IsWS(s[Len(s)]) THEN TrimEnd(SubSeq(s, 1, Len(s) - 1))
    ELSE s

RECURSIVE TrimStart(_)
TrimStart(s) ==
    IF s = <<>> THEN <<>>
    ELSE IF IsWS(Head(s)) THEN TrimStart(Tail(s))
    ELSE s

\* String.prototype.trim
Trim(s) == TrimStart(TrimEnd(s))

StartsWith(s, p) == Len(p) <= Len(s) /\ SubSeq(s, 1, Len(p)) = p

EndsWith(s, p) == Len(p) <= Len(s) /\ SubSeq(s, Len(s) - Len(p) + 1, Len(s)) = p

\* s.substring(0, n) for n >= 0
Substring0(s, n) == SubSeq(s, 1, IF n < Len(s) THEN n ELSE Len(s))

\* s.substring(n) for n >= 0
SubstringFrom(s, n) == SubSeq(s, n + 1, Len(s))

DEFAULT_SYSTEM_PROMPT ==
    <<"Y", "o", "u", " ", "a", "r", "e", " ", "a", " ", "h", "e", "l", "p", "f", "u", "l", ",", " ", "h", "a", "r", "m", "l", "e", "s", "s", ",", " ", "a", "n", "d", " ", "h", "o", "n", "e", "s", "t", " ", "a", "s", "s", "i", "s", "t", "a", "n", "t", ".">>

\* TOKENS
SYSTEM_START == <<"<", "|", "s", "y", "s", "t", "e", "m", "|", ">">>

USER_START == <<"<", "|", "u", "s", "e", "r", "|", ">">>

ASSISTANT_START == <<"<", "|", "a", "s", "s", "i", "s", "t", "a", "n", "t", "|", ">">>

END == <<"<", "/", "s", ">">>

EOT == <<"<", "|", "e", "n", "d", "o", "f", "t", "e", "x", "t", "|", ">">>

(***************************************************************************)
(* cleanResponse                                                           *)
(***************************************************************************)

\* cleaned.replace(new RegExp(`${TOKENS.END}\\s*$`, 'g'), ''): the pattern
\* </s>\s*$ has no metacharacter in the marker, so it matches the marker
\* followed only by whitespace up to the end of the text, once.
StripTrailingEnd(s) ==
    IF EndsWith(TrimEnd(s), END)
    THEN SubSeq(s, 1, Len(TrimEnd(s)) - Len(END))
    ELSE s

\* The word between the two bars of TOKENS.EOT.
EotWord == SubSeq(EOT, 3, Len(EOT) - 2)

\* cleaned.replace(new RegExp(`${TOKENS.EOT}\\s*$`, 'g'), ''): in the pattern
\* <|endoftext|>\s*$ the two bars of the marker are alternation, so the
\* pattern is "<" or "endoftext" or ">\s*$", and with the g flag every match,
\* scanning left to right, is removed.
RECURSIVE StripEotPattern(_)
StripEotPattern(s) ==
    IF s = <<>> THEN <<>>
    ELSE IF Head(s) = EOT[1] THEN StripEotPattern(Tail(s))
    ELSE IF StartsWith(s, EotWord)
        THEN StripEotPattern(SubstringFrom(s, Len(EotWord)))
    ELSE IF Head(s) = EOT[Len(EOT)] /\ AllWS(Tail(s)) THEN <<>>
    ELSE <<Head(s)>> \o StripEotPattern(Tail(s))

\* if (cleaned.startsWith(ASSISTANT_START)) cleaned = cleaned.substring(...).trim()
StripLeadingAssistant(s) ==
    IF StartsWith(s, ASSISTANT_START)
    THEN Trim(SubstringFrom(s, Len(ASSISTANT_START)))
    ELSE s

\* Length of the maximal run of characters of cs at the start of s.
RECURSIVE RunLen(_, _)
RunLen(s, cs) ==
    IF s = <<>> \/ Head(s) \notin cs THEN 0
    ELSE 1 + RunLen(Tail(s), cs)

\* s.replace(/[cs]{min,}/g, repl): every maximal run of at least min
\* characters of cs becomes repl; shorter runs stay.
RECURSIVE CollapseRuns(_, _, _, _)
CollapseRuns(s, cs, min, repl) ==
    IF s = <<>> THEN <<>>
    ELSE LET n == RunLen(s, cs) IN
         IF n = 0 THEN <<Head(s)>> \o CollapseRuns(Tail(s), cs, min, repl)
         ELSE (IF n >= min THEN repl ELSE SubSeq(s, 1, n))
              \o CollapseRuns(SubstringFrom(s, n), cs, min, repl)

\* cleanResponse(response), for a string response ('' for the empty string)
cleanResponse(response) ==
    IF response = <<>> THEN <<>>
    ELSE LET c0 == Trim(response)
             c1 == StripTrailingEnd(c0)
             c2 == StripEotPattern(c1)
             c3 == StripLeadingAssistant(c2)
             c4 == CollapseRuns(c3, {"\n"}, 4, <<"\n", "\n", "\n">>)
             c5 == CollapseRuns(c4, {" ", "\t"}, 3, <<" ", " ">>)
         IN  Trim(c5)

(***************************************************************************)
(* truncateAtSentenceBoundary                                              *)
(***************************************************************************)

\* Math.ceil(response.length / 4)
EstimatedTokens(s) == (Len(s) + 3) \div 4

\* 1-based positions p of a match of /[.!?][\s\n]/ : punctuation at p,
\* whitespace at p + 1.
SentenceEnds(s) ==
    {p \in 1..(Len(s) - 1) : s[p] \in {".", "!", "?"} /\ IsWS(s[p + 1])}

SetMax(S) == CHOOSE x \in S : \A y \in S : y <= x

\* A variant of the exec loop that stops at the first match.
FirstSentenceEnd(s, maxChars) ==
    LET ok == {p \in SentenceEnds(s) : p + 1 <= maxChars}
    IN  IF ok = {} THEN 0 ELSE (CHOOSE x \in ok : \A y \in ok : x <= y) + 1

\* The exec loop keeps the last match whose end (index + 2, 0-based index)
\* is at most maxChars; 0 when there is none.  Returns that end.
LastSentenceEnd(s, maxChars) ==
    LET ok == {p \in SentenceEnds(s) : p + 1 <= maxChars}
    IN  IF ok = {} THEN 0 ELSE SetMax(ok) + 1

\* response.lastIndexOf(' ') without the second argument.
LastIndexOfSpaceAnywhere(s, from) ==
    LET ok == {p \in 1..Len(s) : s[p] = " "}
    IN  IF ok = {} THEN -1 ELSE SetMax(ok) - 1

\* response.lastIndexOf(' ', from): the 0-based index, -1 when absent.
LastIndexOfSpace(s, from) ==
    LET ok == {p \in 1..Len(s) : s[p] = " " /\ p - 1 <= from}
    IN  IF ok = {} THEN -1 ELSE SetMax(ok) - 1

\* h.replace(/\s+\S+$/, ''): the last whitespace run followed by a final
\* word is removed together with that word.
DropLastWord(h) ==
    IF h = <<>> \/ IsWS(h[Len(h)]) THEN h
    ELSE LET ws == {p \in 1..Len(h) : IsWS(h[p])} IN
         IF ws = {} THEN h
         ELSE SubSeq(h, 1, Len(TrimEnd(SubSeq(h, 1, SetMax(ws)))))

truncateAtSentenceBoundary(response, maxTokens) ==
    IF response = <<>> THEN response
    ELSE IF EstimatedTokens(response) <= maxTokens THEN response
    ELSE LET maxChars == maxTokens * 4
             sentenceEnd == LastSentenceEnd(response, maxChars)
             wordBoundaryIndex == LastIndexOfSpace(response, maxChars)
         IN  IF Len(response) > maxChars
             THEN IF sentenceEnd > 0
                  THEN Trim(Substring0(response, sentenceEnd))
                  ELSE IF 10 * wordBoundaryIndex > 7 * maxChars
                  THEN Trim(Substring0(response, wordBoundaryIndex))
                  ELSE DropLastWord(Trim(Substring0(response, maxChars)))
             ELSE response

(***************************************************************************)
(* Bounds of the model                                                     *)
(***************************************************************************)

\* calls (generate, initialize, cleanup) that may be suspended at once
MaxPending == 2

\* length of a message list given to generate
MaxMessages == 2

(***************************************************************************)
(* InferenceEngine: values                                                 *)
(***************************************************************************)

NULL == "null"

MOCK == "mock"

\* Model paths given to initialize: the stub handle, the empty (falsy)
\* string and two model files.
ModelPaths == {MOCK, "", "A", "B"}

\* What a native session offers for generation: completion(), only
\* prompt(), or neither.
SessionKinds == {"completion", "prompt", "bare"}

Roles == {"system", "user", "assistant"}

\* Bare-string inputs: empty (falsy), blank, text.
Contents == {<<>>, <<" ">>, <<"h">>}

\* Message contents: blank, text.
MessageContents == {<<" ">>, <<"h">>}

Messages == [role : Roles, content : MessageContents]

MessageLists == UNION {[1..n -> Messages] : n \in 0..MaxMessages}

StringInput(s) == [kind |-> "string", str |-> s, msgs |-> <<>>]

ListInput(ms) == [kind |-> "messages", str |-> <<>>, msgs |-> ms]

Inputs == {StringInput(s) : s \in Contents} \cup {ListInput(ms) : ms \in MessageLists}

Msg(r, c) == [role |-> r, content |-> c]

\* One input for each path through lines 199-268 of generate: the three
\* bare strings, the empty list, a list without a user message, a list
\* that gets the default system message, a list that starts with a system
\* message, and lists that lose their system message, their user message
\* or every message to the blank filter.
SampleInputs ==
    {StringInput(s) : s \in Contents}
    \cup {ListInput(<<>>),
          ListInput(<<Msg("assistant", <<"h">>)>>),
          ListInput(<<Msg("user", <<"h">>)>>),
          ListInput(<<Msg("system", <<"h">>), Msg("user", <<"h">>)>>),
          ListInput(<<Msg("system", <<" ">>), Msg("user", <<"h">>)>>),
          ListInput(<<Msg("user", <<" ">>)>>),
          ListInput(<<Msg("system", <<" ">>), Msg("user", <<" ">>)>>)}

DEFAULT_MAX_TOKENS == 128

\* options.maxTokens: <<>> when the option is absent, <<n>> when given
MaxTokensOptions == {<<>>, <<1>>}

\* Texts the native engine may produce.
EngineTexts ==
    {<<>>, <<" ">>, <<"o", "k">>, END, <<"H", "i", ".", " ", "y", "o", "u">>}

\* A native result: a string, an object whose fields text, content,
\* response, message are absent (<<>>) or hold a string (<<s>>), null,
\* undefined, or the number 42.
StringResult(s) ==
    [kind |-> "string", str |-> s,
     text |-> <<>>, content |-> <<>>, response |-> <<>>, message |-> <<>>]

ObjectResult(t, c, r, m) ==
    [kind |-> "object", str |-> <<>>,
     text |-> t, content |-> c, response |-> r, message |-> m]

\* For a value that is neither a string nor an object, str is String(value).
NullResult == [StringResult(<<"n", "u", "l", "l">>) EXCEPT !.kind = "null"]

UndefinedResult ==
    [StringResult(<<"u", "n", "d", "e", "f", "i", "n", "e", "d">>)
        EXCEPT !.kind = "undefined"]

NumberResult == [StringResult(<<"4", "2">>) EXCEPT !.kind = "number"]

FieldTexts == {<<>>, <<" ">>, <<"o", "k">>}

FieldValues == {<<>>} \cup {<<s>> : s \in FieldTexts}

\* Objects with at most one of the four fields, those holding both text
\* and message, and those holding both response and message.
ObjectResults ==
    {ObjectResult(v, <<>>, <<>>, <<>>) : v \in FieldValues}
    \cup {ObjectResult(<<>>, v, <<>>, <<>>) : v \in FieldValues}
    \cup {ObjectResult(<<>>, <<>>, v, <<>>) : v \in FieldValues}
    \cup {ObjectResult(<<>>, <<>>, <<>>, v) : v \in FieldValues}
    \cup {ObjectResult(v, <<>>, <<>>, w) : v, w \in FieldValues}
    \cup {ObjectResult(<<>>, <<>>, v, w) : v, w \in FieldValues}

NativeResults ==
    {StringResult(s) : s \in EngineTexts} \cup ObjectResults
    \cup {NullResult, UndefinedResult, NumberResult}

\* The result is a string, or an object with a string under at least one
\* of the four fields, and every string it carries is empty or whitespace.
BlankText(result) ==
    \/ result.kind = "string" /\ Trim(result.str) = <<>>
    \/ /\ result.kind = "object"
       /\ \E f \in {result.text, result.content, result.response, result.message} :
              f # <<>>
       /\ \A f \in {result.text, result.content, result.response, result.message} :
              f # <<>> => Trim(f[1]) = <<>>

\* Errors the native call may throw, by what their message contains.
NativeErrors == {"NativeTimeout", "NativeMemory", "NativeOther"}

(***************************************************************************)
(* InferenceEngine: outcomes of a call                                     *)
(***************************************************************************)

Out(o, e, c, k, v) ==
    [outcome |-> o, err |-> e, cause |-> c, canned |-> k, val |-> v]

Rejected(err, cause) == Out("rejected", err, cause, FALSE, <<>>)

Resolved(v) == Out("resolved", "-", "-", FALSE, v)

\* generateMockResponse: one of the canned sentences, not modelled further
Canned == Out("resolved", "-", "-", TRUE, <<>>)

Pending == Out("pending", "-", "-", FALSE, <<>>)

Void == Out("resolved", "-", "-", FALSE, <<>>)

(***************************************************************************)
(* InferenceEngine: state                                                  *)
(***************************************************************************)

VARIABLES
    nativeAvailable,  \* initLlama was loaded (Platform.OS !== 'web', llama.rn present)
    context,          \* this.context: NULL or the kind of the session held
    modelPath,        \* this.modelPath: NULL or a path
    isInitialized,    \* this.isInitialized
    isGenerating,     \* this.isGenerating
    generations,      \* bag of generate calls suspended at generateWithTimeout
    initializations,  \* bag of initialize calls suspended at an await
    cleanups,         \* number of cleanup() calls waiting in their polling loop
    orphaned,         \* a session was dropped by the engine without being released
    ev                \* what the last step did and returned

engineVars ==
    <<nativeAvailable, context, modelPath, isInitialized, isGenerating,
      generations, initializations, cleanups, orphaned, ev>>

\* The event record: the operation, its outcome, for generate whether the
\* native generation call was made, for a native return whether the text
\* of the result was blank and what generateWithTimeout settled with ("-"
\* for a string, else the error), and for initialize the path.
Event(op, out) ==
    [op |-> op, out |-> out, called |-> FALSE, blank |-> FALSE, norm |-> "-",
     path |-> NULL]

\* Suspended calls.
PendingCalls ==
    BagCardinality(generations) + BagCardinality(initializations) + cleanups

BagOf(x) == SetToBag({x})

(***************************************************************************)
(* InferenceEngine.generate: the synchronous part                          *)
(***************************************************************************)

SystemMessage == [role |-> "system", content |-> DEFAULT_SYSTEM_PROMPT]

NonBlank(ms) == SelectSeq(ms, LAMBDA m : m.content # <<>> /\ Trim(m.content) # <<>>)

\* A variant of lines 233-268 without the check of line 252 for a user-role
\* message.
PrepareMessagesNoUserCheck(input) ==
    LET m0 == IF input.kind = "messages" THEN input.msgs
              ELSE <<SystemMessage, [role |-> "user", content |-> input.str]>>
        m1 == IF m0[1].role # "system" THEN <<SystemMessage>> \o m0 ELSE m0
    IN  IF m0 = <<>> THEN [ok |-> FALSE, cause |-> "EmptyMessages", msgs |-> <<>>]
        ELSE [ok |-> TRUE, cause |-> "-", msgs |-> NonBlank(m1)]

\* Lines 233-268: the message list given to generateWithTimeout, or the
\* error thrown before it.
PrepareMessages(input) ==
    LET m0 == IF input.kind = "messages" THEN input.msgs
              ELSE <<SystemMessage, [role |-> "user", content |-> input.str]>>
        m1 == IF m0[1].role # "system" THEN <<SystemMessage>> \o m0 ELSE m0
    IN  IF m0 = <<>> THEN [ok |-> FALSE, cause |-> "EmptyMessages", msgs |-> <<>>]
        ELSE IF ~ \E i \in 1..Len(m0) : m0[i].role = "user"
        THEN [ok |-> FALSE, cause |-> "NoUserMessage", msgs |-> <<>>]
        ELSE [ok |-> TRUE, cause |-> "-", msgs |-> NonBlank(m1)]

\* Lines 297-313: the catch block of generate, for an error of the given
\* cause, with this.modelPath as it is when the error is caught.
CatchGenerate(cause, mp) ==
    IF mp = MOCK THEN Canned
    ELSE IF cause \in {"Timeout", "NativeTimeout"} THEN Rejected("TimedOut", cause)
    ELSE IF cause = "NativeMemory" THEN Rejected("Memory", cause)
    ELSE Rejected("Failed", cause)

\* String.prototype.includes
Includes(s, p) == \E i \in 0..(Len(s) - Len(p)) : StartsWith(SubstringFrom(s, i), p)

\* Lines 147-158: the part pushed for a message of the given role.
RoleStart(role) ==
    IF role = "user" THEN USER_START
    ELSE IF role = "assistant" THEN ASSISTANT_START
    ELSE SYSTEM_START

\* Lines 133-159: the part of the default system prompt, then one part for
\* each message whose trimmed content is not empty.
RECURSIVE MessageParts(_)
MessageParts(messages) ==
    IF messages = <<>> THEN <<>>
    ELSE LET content == Trim(Head(messages).content)
         IN  (IF content = <<>> THEN <<>>
              ELSE <<RoleStart(Head(messages).role) \o <<"\n">> \o content \o END>>)
             \o MessageParts(Tail(messages))

\* parts.join('\n')
RECURSIVE Join(_)
Join(parts) ==
    IF parts = <<>> THEN <<>>
    ELSE IF Len(parts) = 1 THEN parts[1]
    ELSE parts[1] \o <<"\n">> \o Join(Tail(parts))

\* formatMessages(messages) without a systemPrompt argument, as line 361
\* calls it: the prompt, or the error thrown for an empty list.
formatMessages(messages) ==
    IF messages = <<>> THEN [ok |-> FALSE, prompt |-> <<>>]
    ELSE LET parts == <<SYSTEM_START \o <<"\n">> \o DEFAULT_SYSTEM_PROMPT \o END>>
                      \o MessageParts(messages)
             last == parts[Len(parts)]
         IN  [ok |-> TRUE,
              prompt |-> Join(IF Includes(last, ASSISTANT_START) THEN parts
                              ELSE Append(parts, ASSISTANT_START \o <<"\n">>))]

\* Lines 333-375: what generateWithTimeout does before it awaits: the state
\* the call is suspended in. "native": the native call was made and is
\* awaited under the timer; otherwise the promise is already rejected.
StartNative(ctx, msgs) ==
    IF ctx = "completion" THEN "native"
    ELSE IF ctx = "prompt"
        THEN (IF msgs = <<>> THEN "FormatEmpty" ELSE "native")
    ELSE "NoMethod"

SyncResult(flag, out, gen, called, native) ==
    [flag |-> flag, out |-> out, gen |-> gen, called |-> called, native |-> native]

\* Lines 197-316 up to the await: the try block with its catch and finally.
TryGenerate(input, maxTokens) ==
    IF input.kind = "string" /\ input.str = <<>>
    THEN SyncResult(FALSE, CatchGenerate("EmptyInput", modelPath), <<>>, FALSE, <<>>)
    ELSE IF modelPath = MOCK
    THEN SyncResult(FALSE, Canned, <<>>, FALSE, <<>>)
    ELSE IF context = NULL
    THEN SyncResult(FALSE, CatchGenerate("NoContext", modelPath), <<>>, FALSE, <<>>)
    ELSE LET p == PrepareMessages(input) IN
         IF ~p.ok
         THEN SyncResult(FALSE, CatchGenerate(p.cause, modelPath), <<>>, FALSE, <<>>)
         ELSE LET st == StartNative(context, p.msgs) IN
              SyncResult(TRUE, Pending,
                         <<[maxTokens |-> maxTokens, state |-> st]>>,
                         st = "native", p.msgs)

\* A variant of generate in which the concurrency guard is inside the try
\* block, so that its throw runs the finally clause.
GenerateSyncBusyInTry(input, maxTokens) ==
    IF ~isInitialized
    THEN SyncResult(isGenerating, Rejected("NotInitialized", "-"), <<>>, FALSE, <<>>)
    ELSE IF isGenerating
    THEN SyncResult(FALSE, Rejected("Busy", "-"), <<>>, FALSE, <<>>)
    ELSE TryGenerate(input, maxTokens)

\* A variant of generate without the guard of line 186.
GenerateSyncNoInitCheck(input, maxTokens) ==
    IF isGenerating
    THEN SyncResult(isGenerating, Rejected("Busy", "-"), <<>>, FALSE, <<>>)
    ELSE TryGenerate(input, maxTokens)

\* Lines 185-195: the two guards before the flag is set.  A guard throws
\* outside the try block, so the finally clause does not run.
GenerateSync(input, maxTokens) ==
    IF ~isInitialized
    THEN SyncResult(isGenerating, Rejected("NotInitialized", "-"), <<>>, FALSE, <<>>)
    ELSE IF isGenerating
    THEN SyncResult(isGenerating, Rejected("Busy", "-"), <<>>, FALSE, <<>>)
    ELSE TryGenerate(input, maxTokens)

\* generate(input, {maxTokens: opt}) is called.
Generate(input, opt) ==
    LET maxTokens == IF opt = <<>> THEN DEFAULT_MAX_TOKENS ELSE opt[1]
        r == GenerateSync(input, maxTokens)
    IN  /\ r.gen # <<>> => PendingCalls < MaxPending
        /\ isGenerating' = r.flag
        /\ generations' = IF r.gen = <<>> THEN generations
                          ELSE generations (+) BagOf(r.gen[1])
        /\ ev' = [Event("generate", r.out) EXCEPT !.called = r.called]
        /\ UNCHANGED <<nativeAvailable, context, modelPath, isInitialized,
                       initializations, cleanups, orphaned>>

(***************************************************************************)
(* InferenceEngine.generate: after the await                               *)
(***************************************************************************)

Present(f) == f # <<>>

\* Lines 383-416: the native result as one string, or the error.
\* result.response and result.message are also tested for truthiness, which
\* the empty string fails.  The last branch takes String(result), which is
\* "[object Object]" for an object and is refused.
NormalizeResult(result) ==
    LET fail(c) == [ok |-> FALSE, cause |-> c, text |-> <<>>]
        take(s, c) == IF Trim(s) = <<>> THEN fail(c)
                      ELSE [ok |-> TRUE, cause |-> "-", text |-> s]
    IN  IF result.kind = "string" THEN take(result.str, "EmptyString")
        ELSE IF result.kind = "object" /\ Present(result.text)
        THEN take(result.text[1], "EmptyText")
        ELSE IF result.kind = "object" /\ Present(result.content)
        THEN take(result.content[1], "EmptyContent")
        ELSE IF result.kind = "object" /\ Present(result.response)
                /\ result.response[1] # <<>>
        THEN take(result.response[1], "EmptyResponse")
        ELSE IF result.kind = "object" /\ Present(result.message)
                /\ result.message[1] # <<>>
        THEN take(result.message[1], "EmptyMessage")
        ELSE IF result.kind # "object" /\ Trim(result.str) # <<>>
        THEN [ok |-> TRUE, cause |-> "-", text |-> result.str]
        ELSE fail("InvalidFormat")

\* Lines 280-295: cleaning, the fallback to the raw text, truncation.  The
\* canned fallback of line 288 is taken when cleaned and raw are both blank.
PostProcess(response, maxTokens) ==
    LET cleaned == cleanResponse(response) IN
    IF cleaned = <<>> \/ Trim(cleaned) = <<>>
    THEN IF response # <<>> /\ Trim(response) # <<>>
         THEN Resolved(truncateAtSentenceBoundary(Trim(response), maxTokens))
         ELSE Canned
    ELSE Resolved(truncateAtSentenceBoundary(cleaned, maxTokens))

\* The continuation of generate when generateWithTimeout settles: with a
\* string (ok) or with an error of the given cause.
Continue(ok, text, cause, maxTokens) ==
    IF ok THEN PostProcess(text, maxTokens)
    ELSE CatchGenerate(cause, modelPath)

\* Line 315: the finally clause.
\* A variant of generate without the finally clause.
FinallyGeneratingMissing == isGenerating

\* Line 315: the finally clause of generate.
FinallyGenerating == FALSE

Settle(g, op, out, norm, blank) ==
    /\ generations' = generations (-) BagOf(g)
    /\ isGenerating' = FinallyGenerating
    /\ ev' = [Event(op, out) EXCEPT !.norm = norm, !.blank = blank]
    /\ UNCHANGED <<nativeAvailable, context, modelPath, isInitialized,
                   initializations, cleanups, orphaned>>

\* The native call of a suspended generate returns a result.
NativeReturn(g, result) ==
    /\ BagIn(g, generations) /\ g.state = "native"
    /\ LET n == NormalizeResult(result)
       IN  Settle(g, "return", Continue(n.ok, n.text, n.cause, g.maxTokens),
                  n.cause, BlankText(result))

\* The native call of a suspended generate throws or rejects.
NativeThrow(g, cause) ==
    /\ BagIn(g, generations) /\ g.state = "native"
    /\ Settle(g, "throw", Continue(FALSE, <<>>, cause, g.maxTokens), cause, FALSE)

\* Lines 329-331: the timer fires before the native call has returned.
TimeoutOutcome(maxTokens) == Continue(FALSE, <<>>, "Timeout", maxTokens)

GenerationTimeout(g) ==
    /\ BagIn(g, generations) /\ g.state = "native"
    /\ Settle(g, "timeout", TimeoutOutcome(g.maxTokens), "Timeout", FALSE)

\* generateWithTimeout rejected before any native call (no generation
\* method, or formatMessages threw); generate resumes with that error.
NoCallRejection(g) ==
    /\ BagIn(g, generations) /\ g.state # "native"
    /\ Settle(g, "nocall", Continue(FALSE, <<>>, g.state, g.maxTokens), g.state, FALSE)

(***************************************************************************)
(* InferenceEngine.cleanup                                                 *)
(***************************************************************************)

\* What releasing the session does: release() or free() returns, throws,
\* or the session offers neither.
ReleaseOutcomes == {"released", "threw", "noMethod"}

\* A variant of lines 581-595 whose reset is skipped when the release
\* throws (no finally clause).
ReleaseAndResetUnlessThrew(rel) ==
    IF rel = "threw"
    THEN UNCHANGED <<orphaned, context, modelPath, isInitialized, isGenerating>>
    ELSE /\ orphaned' = (orphaned \/ (context # NULL /\ rel # "released"))
         /\ context' = NULL
         /\ modelPath' = NULL
         /\ isInitialized' = FALSE
         /\ isGenerating' = FALSE

\* Lines 581-595: release the session if one is held, then reset.  A
\* session whose release did not go through is dropped all the same.
ReleaseAndReset(rel) ==
    /\ orphaned' = (orphaned \/ (context # NULL /\ rel # "released"))
    /\ context' = NULL
    /\ modelPath' = NULL
    /\ isInitialized' = FALSE
    /\ isGenerating' = FALSE

\* Lines 576-578: the polling loop ends when the flag is clear or 5000 ms
\* have passed.
WaitOver(elapsed) == ~isGenerating \/ elapsed

\* cleanup() is called: it enters the polling loop if a generation is in
\* flight, and otherwise releases and resets at once.
Cleanup ==
    IF isGenerating
    THEN /\ PendingCalls < MaxPending
         /\ cleanups' = cleanups + 1
         /\ ev' = Event("cleanup", Pending)
         /\ UNCHANGED <<nativeAvailable, context, modelPath, isInitialized,
                        isGenerating, generations, initializations, orphaned>>
    ELSE /\ \E rel \in ReleaseOutcomes : ReleaseAndReset(rel)
         /\ ev' = Event("cleanup", Void)
         /\ UNCHANGED <<nativeAvailable, generations, initializations, cleanups>>

\* A waiting cleanup() leaves its loop and finishes.
CleanupWaitDone ==
    /\ cleanups > 0
    /\ \E elapsed \in BOOLEAN : WaitOver(elapsed)
    /\ cleanups' = cleanups - 1
    /\ \E rel \in ReleaseOutcomes : ReleaseAndReset(rel)
    /\ ev' = Event("cleanupDone", Void)
    /\ UNCHANGED <<nativeAvailable, generations, initializations>>

(***************************************************************************)
(* InferenceEngine.initialize                                              *)
(***************************************************************************)

InitCall(path, pc) == [path |-> path, pc |-> pc]

\* Line 56 with an early return only while no generation is in flight.
AlreadyInitializedAndIdle(path) ==
    isInitialized /\ modelPath = path /\ ~isGenerating

\* Line 56: already initialized with this path.
AlreadyInitialized(path) == isInitialized /\ modelPath = path

\* Line 62: a previous model is unloaded first.
NeedsCleanup == context # NULL /\ modelPath # MOCK

\* Lines 66-81: what initialize does once the previous model is gone: wait
\* 500 ms for mock mode, throw on a falsy path, or call initLlama.
ProceedStep(path) ==
    IF path = MOCK \/ ~nativeAvailable THEN "mockDelay"
    ELSE IF path = "" THEN "throw"
    ELSE "initLlama"

\* Lines 100-108: the error initialize rejects with.
InitError(cause) ==
    IF cause \in {"InvalidPath", "InitFile"} THEN Rejected("ModelNotFound", cause)
    ELSE IF cause = "InitMemory" THEN Rejected("InsufficientMemory", cause)
    ELSE Rejected("InitFailed", cause)

InitErrors == {"InitFile", "InitMemory", "InitOther"}

\* A variant of the catch block without the assignment of line 98.
CatchInitializeKeepsPath ==
    /\ isInitialized' = FALSE
    /\ context' = NULL
    /\ orphaned' = (orphaned \/ context # NULL)
    /\ UNCHANGED <<modelPath, isGenerating>>

\* Lines 94-98: the catch block resets the engine; nothing is released.
CatchInitialize ==
    /\ isInitialized' = FALSE
    /\ context' = NULL
    /\ modelPath' = NULL
    /\ orphaned' = (orphaned \/ context # NULL)
    /\ UNCHANGED isGenerating

\* Lines 66-81, reached at the call or after the awaited cleanup(); rest
\* is the bag of the other suspended initialize calls.
Proceed(path, rest, op) ==
    LET step == ProceedStep(path) IN
    IF step = "throw"
    THEN /\ CatchInitialize
         /\ initializations' = rest
         /\ ev' = [Event(op, InitError("InvalidPath")) EXCEPT !.path = path]
    ELSE /\ BagCardinality(generations) + BagCardinality(rest) + cleanups
                < MaxPending
         /\ initializations' = rest (+) BagOf(InitCall(path, step))
         /\ ev' = [Event(op, Pending) EXCEPT !.path = path]
         /\ UNCHANGED <<context, modelPath, isInitialized, isGenerating,
                        orphaned>>

\* initialize(path) is called.
Initialize(path) ==
    IF AlreadyInitialized(path)
    THEN /\ ev' = [Event("initialize", Void) EXCEPT !.path = path]
         /\ UNCHANGED <<nativeAvailable, context, modelPath, isInitialized,
                        isGenerating, generations, initializations, cleanups,
                        orphaned>>
    ELSE IF NeedsCleanup
    THEN /\ PendingCalls < MaxPending
         /\ IF isGenerating
            THEN /\ initializations' =
                        initializations (+) BagOf(InitCall(path, "cleanupWait"))
                 /\ UNCHANGED <<context, modelPath, isInitialized,
                                isGenerating, orphaned>>
            ELSE /\ initializations' =
                        initializations (+) BagOf(InitCall(path, "cleanupDone"))
                 /\ \E rel \in ReleaseOutcomes : ReleaseAndReset(rel)
         /\ ev' = [Event("initialize", Pending) EXCEPT !.path = path]
         /\ UNCHANGED <<nativeAvailable, generations, cleanups>>
    ELSE /\ Proceed(path, initializations, "initialize")
         /\ UNCHANGED <<nativeAvailable, generations, cleanups>>

\* The cleanup() awaited by a suspended initialize leaves its loop.
InitCleanupWaitDone(i) ==
    /\ BagIn(i, initializations) /\ i.pc = "cleanupWait"
    /\ \E elapsed \in BOOLEAN : WaitOver(elapsed)
    /\ \E rel \in ReleaseOutcomes : ReleaseAndReset(rel)
    /\ initializations' =
            (initializations (-) BagOf(i)) (+) BagOf(InitCall(i.path, "cleanupDone"))
    /\ ev' = [Event("initCleanupDone", Pending) EXCEPT !.path = i.path]
    /\ UNCHANGED <<nativeAvailable, generations, cleanups>>

\* initialize resumes after the awaited cleanup().
InitAfterCleanup(i) ==
    /\ BagIn(i, initializations) /\ i.pc = "cleanupDone"
    /\ Proceed(i.path, initializations (-) BagOf(i), "initResume")
    /\ UNCHANGED <<nativeAvailable, generations, cleanups>>

\* Lines 67-71: the 500 ms of mock mode are over.
InitMockDone(i) ==
    /\ BagIn(i, initializations) /\ i.pc = "mockDelay"
    /\ modelPath' = MOCK
    /\ isInitialized' = TRUE
    /\ initializations' = initializations (-) BagOf(i)
    /\ ev' = [Event("initMockDone", Void) EXCEPT !.path = i.path]
    /\ UNCHANGED <<nativeAvailable, context, isGenerating, generations,
                   cleanups, orphaned>>

\* Lines 81-93: initLlama returns a session of the given kind, which
\* replaces whatever this.context holds.
InitLlamaReturn(i, kind) ==
    /\ BagIn(i, initializations) /\ i.pc = "initLlama"
    /\ orphaned' = (orphaned \/ context # NULL)
    /\ context' = kind
    /\ modelPath' = i.path
    /\ isInitialized' = TRUE
    /\ initializations' = initializations (-) BagOf(i)
    /\ ev' = [Event("initLlamaDone", Void) EXCEPT !.path = i.path]
    /\ UNCHANGED <<nativeAvailable, isGenerating, generations, cleanups>>

\* Lines 94-108: initLlama throws.
InitLlamaThrow(i, cause) ==
    /\ BagIn(i, initializations) /\ i.pc = "initLlama"
    /\ CatchInitialize
    /\ initializations' = initializations (-) BagOf(i)
    /\ ev' = [Event("initLlamaFailed", InitError(cause)) EXCEPT !.path = i.path]
    /\ UNCHANGED <<nativeAvailable, generations, cleanups>>

(***************************************************************************)
(* ContextWindowManager                                                    *)
(***************************************************************************)

VARIABLES
    activeWindow,      \* this.activeWindow
    archivedMessages,  \* this.archivedMessages
    added,             \* the messages given to addMessage since construction or clear()
    nextId,            \* the id the caller gives the next message
    wev                \* the last call on the context window manager

windowVars == <<activeWindow, archivedMessages, added, nextId, wev>>

\* addMessage calls since construction or the last clear()
MaxAdds == 13

\* The first MaxEmbedded messages added since construction or the last
\* clear() carry any of MessageEmbeddings; the later ones carry none.
MaxEmbedded == 3

\* MODEL_CONSTANTS.SLIDING_WINDOW_SIZE
SLIDING_WINDOW_SIZE == 10

\* MODEL_CONSTANTS.ARCHIVED_MESSAGES_TO_RETRIEVE
ARCHIVED_MESSAGES_TO_RETRIEVE == 3

\* number[] values of Message.embedding: the empty array, two unit vectors
\* and the zero vector.
EmbeddingVectors == {<<>>, <<1, 0>>, <<0, 1>>, <<0, 0>>}

\* number[] values of the queryEmbedding argument.
QueryVectors == {<<>>, <<1, 0>>, <<1, 1>>, <<0, 0>>}

\* The optional embedding field of a stored message: absent (<<>>) or
\* <<v>> for the array v.
MessageEmbeddings == {<<>>} \cup {<<v>> : v \in EmbeddingVectors}

\* The optional queryEmbedding argument of buildContext.
QueryOptions == {<<>>} \cup {<<v>> : v \in QueryVectors}

\* The topK argument of retrieveRelevantContext.
TopKs == 0..ARCHIVED_MESSAGES_TO_RETRIEVE

StoredMessage(id, e) == [id |-> id, embedding |-> e]

Window(active, archived) == [active |-> active, archived |-> archived]

\* The outcome of a call: a returned message list or a thrown error.
Returned(ms) == [ok |-> TRUE, result |-> ms, error |-> "-"]

Thrown(err) == [ok |-> FALSE, result |-> <<>>, error |-> err]

\* A call, whether it returned (ok) or threw, and the number of archived
\* messages in what it returned.
WEvent(op, ok, n) == [op |-> op, ok |-> ok, n |-> n]

\* A variant of manageWindow that takes the newest messages out instead.
manageWindowArchivesNewest(active, archived) ==
    IF Len(active) > SLIDING_WINDOW_SIZE
    THEN Window(SubSeq(active, 1, SLIDING_WINDOW_SIZE),
                archived \o SubSeq(active, SLIDING_WINDOW_SIZE + 1, Len(active)))
    ELSE Window(active, archived)

\* A variant of manageWindow that archives a copy of the oldest messages and
\* leaves them in the active window (slice in place of splice).
manageWindowCopies(active, archived) ==
    IF Len(active) > SLIDING_WINDOW_SIZE
    THEN Window(active,
                archived \o SubSeq(active, 1, Len(active) - SLIDING_WINDOW_SIZE))
    ELSE Window(active, archived)

\* manageWindow: splice(0, length - maxMessages) takes the oldest messages
\* out of the active window, and they are pushed onto the archive.
manageWindow(active, archived) ==
    IF Len(active) > SLIDING_WINDOW_SIZE
    THEN LET n == Len(active) - SLIDING_WINDOW_SIZE
         IN  Window(SubSeq(active, n + 1, Len(active)),
                    archived \o SubSeq(active, 1, n))
    ELSE Window(active, archived)

\* addMessage(message)
addMessage(message) ==
    LET w == manageWindow(Append(activeWindow, message), archivedMessages)
    IN  /\ nextId <= MaxAdds
        /\ activeWindow' = w.active
        /\ archivedMessages' = w.archived
        /\ added' = Append(added, message)
        /\ nextId' = nextId + 1
        /\ wev' = WEvent("addMessage", TRUE, 0)

\* A variant of clear() that leaves the archive as it is.
clearKeepsArchive ==
    /\ activeWindow' = <<>>
    /\ UNCHANGED archivedMessages
    /\ added' = <<>>
    /\ nextId' = 1
    /\ wev' = WEvent("clear", TRUE, 0)

\* clear().  The caller numbers the messages from 1 again.
clear ==
    /\ activeWindow' = <<>>
    /\ archivedMessages' = <<>>
    /\ added' = <<>>
    /\ nextId' = 1
    /\ wev' = WEvent("clear", TRUE, 0)

(***************************************************************************)
(* ContextWindowManager: semantic retrieval                                *)
(***************************************************************************)

RECURSIVE Dot(_, _)
\* The loop of cosineSimilarity over two arrays of one length.
Dot(a, b) == IF a = <<>> THEN 0 ELSE a[1] * b[1] + Dot(Tail(a), Tail(b))

\* The number dot / sqrt(den); NaN (0/0) when den = 0.  For the vectors of
\* EmbeddingVectors and QueryVectors two such numbers are equal as IEEE
\* doubles exactly when they are equal as reals.
Score(dot, den) == [dot |-> dot, den |-> den]

IsNaN(s) == s.den = 0

Sgn(x) == IF x > 0 THEN 1 ELSE IF x < 0 THEN -1 ELSE 0

\* s < t for two numbers, neither NaN.
ScoreLess(s, t) ==
    Sgn(s.dot) * s.dot * s.dot * t.den < Sgn(t.dot) * t.dot * t.dot * s.den

DimensionMismatch == "Embeddings must have the same length"

\* A variant of cosineSimilarity without the length check of line 97: the
\* loop then reads past the end of b and the score is NaN.
cosineSimilarityUnchecked(a, b) ==
    [ok |-> TRUE, error |-> "-",
     score |-> IF Len(a) # Len(b) THEN Score(0, 0)
               ELSE Score(Dot(a, b), Dot(a, a) * Dot(b, b))]

\* cosineSimilarity(a, b): the thrown error or the score.
cosineSimilarity(a, b) ==
    IF Len(a) # Len(b)
    THEN [ok |-> FALSE, error |-> DimensionMismatch, score |-> Score(0, 0)]
    ELSE [ok |-> TRUE, error |-> "-",
          score |-> Score(Dot(a, b), Dot(a, a) * Dot(b, b))]

\* The comparator (a, b) => b.score - a.score as Array.prototype.sort
\* reads it: its sign, with NaN read as +0.
Compare(a, b) ==
    IF IsNaN(a.score) \/ IsNaN(b.score) THEN 0
    ELSE IF ScoreLess(a.score, b.score) THEN 1
    ELSE IF ScoreLess(b.score, a.score) THEN -1
    ELSE 0

\* The comparator is a consistent comparator for the elements: being
\* equal under it is transitive (it is not when a NaN score stands
\* between two different scores).
ConsistentComparator(s) ==
    \A i, j, l \in 1..Len(s) :
        (Compare(s[i], s[j]) = 0 /\ Compare(s[j], s[l]) = 0)
        => Compare(s[i], s[l]) = 0

RECURSIVE InsertSorted(_, _)
InsertSorted(s, x) ==
    IF s = <<>> \/ Compare(s[Len(s)], x) <= 0 THEN Append(s, x)
    ELSE Append(InsertSorted(SubSeq(s, 1, Len(s) - 1), x), s[Len(s)])

RECURSIVE StableSort(_)
\* The stable sort of ECMAScript 2019 under a consistent comparator.
StableSort(s) ==
    IF s = <<>> THEN <<>>
    ELSE InsertSorted(StableSort(SubSeq(s, 1, Len(s) - 1)), s[Len(s)])

Reorderings(s) ==
    {[i \in 1..Len(s) |-> s[p[i]]] :
        p \in {f \in [1..Len(s) -> 1..Len(s)] :
                  \A i, j \in 1..Len(s) : f[i] = f[j] => i = j}}

\* scoredMessages.sort(...): under a comparator that is not consistent the
\* order is implementation-defined, any permutation.
SortOutcomes(s) ==
    IF ConsistentComparator(s) THEN {StableSort(s)} ELSE Reorderings(s)

\* slice(0, topK) for topK >= 0
Slice(s, topK) == SubSeq(s, 1, IF topK < Len(s) THEN topK ELSE Len(s))

\* retrieveRelevantContext(queryEmbedding, topK): the outcomes the call can
\* have in the current state.
retrieveRelevantContext(queryEmbedding, topK) ==
    LET messagesWithEmbeddings ==
            SelectSeq(archivedMessages, LAMBDA m : m.embedding # <<>>)
        n == Len(messagesWithEmbeddings)
        scoredMessages ==
            [i \in 1..n |->
                [message |-> messagesWithEmbeddings[i],
                 score |-> cosineSimilarity(
                     queryEmbedding, messagesWithEmbeddings[i].embedding[1]).score]]
    IN  IF archivedMessages = <<>> \/ n = 0 THEN {Returned(<<>>)}
        ELSE IF \E i \in 1..n :
                    ~cosineSimilarity(queryEmbedding,
                                      messagesWithEmbeddings[i].embedding[1]).ok
        THEN {Thrown(DimensionMismatch)}
        ELSE {Returned([i \in 1..Len(Slice(s, topK)) |-> s[i].message]) :
                s \in SortOutcomes(scoredMessages)}

\* A variant of buildContext that puts the active window first.
buildContextActiveFirst(queryEmbedding) ==
    IF queryEmbedding # <<>> /\ Len(queryEmbedding[1]) > 0
    THEN {IF r.ok THEN Returned(activeWindow \o r.result) ELSE r :
            r \in retrieveRelevantContext(queryEmbedding[1],
                                          ARCHIVED_MESSAGES_TO_RETRIEVE)}
    ELSE {Returned(activeWindow)}

\* buildContext(currentQuery, queryEmbedding): the outcomes the call can
\* have in the current state.
buildContext(queryEmbedding) ==
    IF queryEmbedding # <<>> /\ Len(queryEmbedding[1]) > 0
    THEN {IF r.ok THEN Returned(r.result \o activeWindow) ELSE r :
            r \in retrieveRelevantContext(queryEmbedding[1],
                                          ARCHIVED_MESSAGES_TO_RETRIEVE)}
    ELSE {Returned(activeWindow)}

\* A call of retrieveRelevantContext(q, k).
RetrieveRelevantContext(q, k) ==
    /\ \E out \in retrieveRelevantContext(q, k) :
            wev' = WEvent("retrieveRelevantContext", out.ok, Len(out.result))
    /\ UNCHANGED <<activeWindow, archivedMessages, added, nextId>>

\* A call of buildContext(currentQuery, q).
BuildContext(q) ==
    /\ \E out \in buildContext(q) :
            wev' = WEvent("buildContext", out.ok,
                         IF out.ok THEN Len(out.result) - Len(activeWindow) ELSE 0)
    /\ UNCHANGED <<activeWindow, archivedMessages, added, nextId>>

WindowInit ==
    /\ activeWindow = <<>>
    /\ archivedMessages = <<>>
    /\ added = <<>>
    /\ nextId = 1
    /\ wev = WEvent("new", TRUE, 0)

(***************************************************************************)
(* BatteryOptimizationService: the power state and its policies            *)
(***************************************************************************)

VARIABLES
    currentBatteryLevel,    \* this.currentBatteryLevel, in hundredths
    isCharging,             \* this.isCharging
    isLowPowerMode,         \* this.isLowPowerMode
    pendingInferenceQueue,  \* this.pendingInferenceQueue: the callers waiting
    batchInterval,          \* this.batchInterval: <<>> for null, or <<timer>>
    timers,                 \* the timeouts of the runtime neither expired nor cleared
    executing,              \* the batches whose inferenceCallback call is awaited
    callers,                \* callers[i]: the promise queueInference gave caller i
    bev                     \* the last event on the battery service

powerVars == <<currentBatteryLevel, isCharging, isLowPowerMode>>

queueVars == <<pendingInferenceQueue, batchInterval, timers, executing, callers>>

batteryVars == <<powerVars, queueVars, bev>>

\* Battery levels 0.00 .. 1.00 in hundredths
Levels == 0..100

BEvent(op, value) == [op |-> op, value |-> value]

\* A variant of shouldThrottleInference that does not look at isCharging.
shouldThrottleInferenceIgnoresCharging ==
    IF currentBatteryLevel < 20 \/ isLowPowerMode THEN TRUE ELSE FALSE

\* shouldThrottleInference()
shouldThrottleInference ==
    IF isCharging THEN FALSE
    ELSE IF currentBatteryLevel < 20 \/ isLowPowerMode THEN TRUE
    ELSE FALSE

BatchConfig(size, wait) == [maxBatchSize |-> size, maxWaitTimeMs |-> wait]

\* A variant of getBatchConfig that tests the medium level before the low
\* level and low-power mode.
getBatchConfigMediumFirst ==
    IF isCharging THEN BatchConfig(1, 100)
    ELSE IF currentBatteryLevel < 50 THEN BatchConfig(3, 2000)
    ELSE IF currentBatteryLevel < 20 \/ isLowPowerMode THEN BatchConfig(5, 5000)
    ELSE BatchConfig(2, 1000)

\* getBatchConfig()
getBatchConfig ==
    IF isCharging THEN BatchConfig(1, 100)
    ELSE IF currentBatteryLevel < 20 \/ isLowPowerMode THEN BatchConfig(5, 5000)
    ELSE IF currentBatteryLevel < 50 THEN BatchConfig(3, 2000)
    ELSE BatchConfig(2, 1000)

\* A variant of getRecommendedDelay that delays in low-power mode too.
getRecommendedDelayLowPower ==
    IF isCharging THEN 0
    ELSE IF currentBatteryLevel < 15 \/ isLowPowerMode THEN 5000
    ELSE IF currentBatteryLevel < 30 THEN 2000
    ELSE 0

\* getRecommendedDelay()
getRecommendedDelay ==
    IF isCharging THEN 0
    ELSE IF currentBatteryLevel < 15 THEN 5000
    ELSE IF currentBatteryLevel < 30 THEN 2000
    ELSE 0

\* The listener of addBatteryLevelListener runs.
BatteryLevelChanged(batteryLevel) ==
    /\ currentBatteryLevel' = batteryLevel
    /\ bev' = BEvent("batteryLevel", batteryLevel)
    /\ UNCHANGED <<isCharging, isLowPowerMode, queueVars>>

\* The listener of addBatteryStateListener runs; charging stands for
\* batteryState being CHARGING or FULL.
BatteryStateChanged(charging) ==
    /\ isCharging' = charging
    /\ bev' = BEvent("batteryState", charging)
    /\ UNCHANGED <<currentBatteryLevel, isLowPowerMode, queueVars>>

\* The listener of addLowPowerModeListener runs.
LowPowerModeChanged(lowPowerMode) ==
    /\ isLowPowerMode' = lowPowerMode
    /\ bev' = BEvent("lowPowerMode", lowPowerMode)
    /\ UNCHANGED <<currentBatteryLevel, isCharging, queueVars>>

\* A call of shouldThrottleInference().
ShouldThrottleInference ==
    /\ bev' = BEvent("shouldThrottleInference", shouldThrottleInference)
    /\ UNCHANGED <<powerVars, queueVars>>

\* A call of getBatchConfig().
GetBatchConfig ==
    /\ bev' = BEvent("getBatchConfig", getBatchConfig)
    /\ UNCHANGED <<powerVars, queueVars>>

\* A call of getRecommendedDelay().
GetRecommendedDelay ==
    /\ bev' = BEvent("getRecommendedDelay", getRecommendedDelay)
    /\ UNCHANGED <<powerVars, queueVars>>

(***************************************************************************)
(* BatteryOptimizationService: the batch queue                             *)
(***************************************************************************)

\* queueInference calls in one behaviour
MaxArrivals == 5

\* One battery level for each band of getBatchConfig
BatchLevels == {10, 40, 80}

\* The promise of a caller: pending, resolved with results[value], or
\* rejected with the error of the executor.
Waiting == [state |-> "pending", value |-> 0]

ResolvedWith(index) == [state |-> "resolved", value |-> index]

RejectedWithError == [state |-> "rejected", value |-> 0]

\* A timeout of the runtime: armed by the given caller's queueInference
\* call, for the given time.
Timer(caller, wait) == [caller |-> caller, maxWaitTimeMs |-> wait]

\* The outcome of a flush decision for the queue state after it.
QueueState(queue, interval, live, exec) ==
    [queue |-> queue, interval |-> interval, live |-> live, exec |-> exec]

\* clearTimeout(this.batchInterval) on the set of live timers
ClearTimeout(live, interval) ==
    IF interval = <<>> THEN live ELSE live \ {interval[1]}

\* processBatch up to its await: the timer is cleared, and a non-empty
\* queue is taken as one batch and handed to inferenceCallback.
processBatch(queue, interval, live, exec) ==
    IF queue = <<>>
    THEN QueueState(<<>>, <<>>, ClearTimeout(live, interval), exec)
    ELSE QueueState(<<>>, <<>>, ClearTimeout(live, interval), exec \cup {queue})

\* A variant of line 169 that arms a timer whether or not one is armed.
NoTimerArmedOrNotAsked == TRUE

\* Line 169: !this.batchInterval
NoTimerArmed == batchInterval = <<>>

\* The executor of the promise of queueInference, for the given caller.
queueInference(caller) ==
    LET config == getBatchConfig
        queue == Append(pendingInferenceQueue, caller)
        timer == Timer(caller, config.maxWaitTimeMs)
    IN  IF Len(queue) >= config.maxBatchSize
        THEN processBatch(queue, batchInterval, timers, executing)
        ELSE IF NoTimerArmed
        THEN QueueState(queue, <<timer>>, timers \cup {timer}, executing)
        ELSE QueueState(queue, batchInterval, timers, executing)

SetQueueState(s) ==
    /\ pendingInferenceQueue' = s.queue
    /\ batchInterval' = s.interval
    /\ timers' = s.live
    /\ executing' = s.exec

\* A call of queueInference(prompt, inferenceCallback).
QueueInference ==
    LET caller == Len(callers) + 1
        s == queueInference(caller)
    IN  /\ caller <= MaxArrivals
        /\ callers' = Append(callers, Waiting)
        /\ SetQueueState(s)
        /\ bev' = BEvent("queueInference", caller)
        /\ UNCHANGED powerVars

\* The timeout t of the runtime expires and its callback calls processBatch.
TimerFires(t) ==
    /\ t \in timers
    /\ SetQueueState(processBatch(pendingInferenceQueue, batchInterval,
                                  timers \ {t}, executing))
    /\ bev' = BEvent("timer", t.caller)
    /\ UNCHANGED <<powerVars, callers>>

\* A variant of the success branch that gives every caller results[0].
SuccessOutcomeFirstResult(index) == ResolvedWith(1)

\* Line 203: item.resolve(results[index]), with positions counted from 1
SuccessOutcome(index) == ResolvedWith(index)

\* Line 208: item.reject(error)
FailureOutcome(index) == RejectedWithError

\* The position of a caller in a batch
IndexIn(batch, caller) == CHOOSE i \in 1..Len(batch) : batch[i] = caller

InBatch(batch, caller) == \E i \in 1..Len(batch) : batch[i] = caller

\* The awaited inferenceCallback call of a batch returns its results.
ExecutorReturn(batch) ==
    /\ batch \in executing
    /\ executing' = executing \ {batch}
    /\ callers' = [c \in 1..Len(callers) |->
                      IF InBatch(batch, c) THEN SuccessOutcome(IndexIn(batch, c))
                      ELSE callers[c]]
    /\ bev' = BEvent("executorReturn", batch)
    /\ UNCHANGED <<powerVars, pendingInferenceQueue, batchInterval, timers>>

\* The awaited inferenceCallback call of a batch fails.
ExecutorThrow(batch) ==
    /\ batch \in executing
    /\ executing' = executing \ {batch}
    /\ callers' = [c \in 1..Len(callers) |->
                      IF InBatch(batch, c) THEN FailureOutcome(IndexIn(batch, c))
                      ELSE callers[c]]
    /\ bev' = BEvent("executorThrow", batch)
    /\ UNCHANGED <<powerVars, pendingInferenceQueue, batchInterval, timers>>

\* cleanup() of the battery service
BatteryCleanup ==
    /\ timers' = ClearTimeout(timers, batchInterval)
    /\ batchInterval' = <<>>
    /\ bev' = BEvent("cleanup", 0)
    /\ UNCHANGED <<powerVars, pendingInferenceQueue, executing, callers>>

\* Lines 32-41: the field initialisers.
BatteryInit ==
    /\ currentBatteryLevel = 100
    /\ isCharging = FALSE
    /\ isLowPowerMode = FALSE
    /\ pendingInferenceQueue = <<>>
    /\ batchInterval = <<>>
    /\ timers = {}
    /\ executing = {}
    /\ callers = <<>>
    /\ bev = BEvent("new", 0)

(***************************************************************************)
(* generate, lines 280-295: the post-processing of one engine response     *)
(***************************************************************************)

VARIABLES
    engineText,         \* response: what generateWithTimeout resolved with
    optsMaxTokens,      \* opts.maxTokens
    cleanedResponse,    \* cleanResponse(response), line 280
    truncateInput,      \* cleanedResponse as given to the truncation, line 293
    truncatedResponse,  \* what generate settles with
    tstage              \* "idle", "resolved" (before line 280), "returned"

textVars ==
    <<engineText, optsMaxTokens, cleanedResponse, truncateInput,
      truncatedResponse, tstage>>

\* pieces an engine text with markers is made of
MaxPieces == 3

\* characters of an engine text made of sentences
MaxChars == 6

MarkerPieces == {END, EOT, ASSISTANT_START, <<"a">>, <<" ">>, <<"<">>}

RECURSIVE Flatten(_)
Flatten(pieces) ==
    IF pieces = <<>> THEN <<>> ELSE Head(pieces) \o Flatten(Tail(pieces))

MarkerTexts ==
    {Flatten(p) : p \in UNION {[1..n -> MarkerPieces] : n \in 1..MaxPieces}}

SentenceChars == {"a", ".", " ", "\n"}

SentenceTexts == UNION {[1..n -> SentenceChars] : n \in 1..MaxChars}

\* Lines 383-407: generateWithTimeout resolves with a string that is not
\* blank.
EngineResponses == {s \in MarkerTexts \cup SentenceTexts : Trim(s) # <<>>}

TextMaxTokens == {0, 1, DEFAULT_MAX_TOKENS}

\* No response is being post-processed.
TextIdle ==
    /\ engineText = <<>>
    /\ optsMaxTokens = DEFAULT_MAX_TOKENS
    /\ cleanedResponse = <<>>
    /\ truncateInput = <<>>
    /\ truncatedResponse = Pending
    /\ tstage = "idle"

\* Lines 280-295 for the response held.
PostProcessResponse ==
    /\ tstage = "resolved"
    /\ cleanedResponse' = cleanResponse(engineText)
    /\ truncateInput' =
            (IF Trim(cleanResponse(engineText)) # <<>>
             THEN cleanResponse(engineText) ELSE Trim(engineText))
    /\ truncatedResponse' = PostProcess(engineText, optsMaxTokens)
    /\ tstage' = "returned"
    /\ UNCHANGED <<engineText, optsMaxTokens>>

(***************************************************************************)
(* The orchestrator as a state machine                                     *)
(***************************************************************************)

EngineInit ==
    /\ nativeAvailable \in BOOLEAN
    /\ context = NULL
    /\ modelPath = NULL
    /\ isInitialized = FALSE
    /\ isGenerating = FALSE
    /\ generations = EmptyBag
    /\ initializations = EmptyBag
    /\ cleanups = 0
    /\ orphaned = FALSE
    /\ ev = Event("new", Void)

GenerationCalls == [maxTokens : {1, DEFAULT_MAX_TOKENS},
                    state : {"native", "NoMethod", "FormatEmpty"}]

InitCalls == [path : ModelPaths,
              pc : {"cleanupWait", "cleanupDone", "mockDelay", "initLlama"}]

vars == <<engineVars, windowVars, batteryVars, textVars>>

Init == EngineInit /\ WindowInit /\ BatteryInit /\ TextIdle

\* Calls to the orchestrator in any interleaving; the context window is
\* not touched by it.
Next ==
    \/ \E input \in SampleInputs, opt \in MaxTokensOptions :
            Generate(input, opt) /\ UNCHANGED <<windowVars, batteryVars, textVars>>
    \/ \E g \in GenerationCalls, r \in NativeResults :
            NativeReturn(g, r) /\ UNCHANGED <<windowVars, batteryVars, textVars>>
    \/ \E g \in GenerationCalls, c \in NativeErrors :
            NativeThrow(g, c) /\ UNCHANGED <<windowVars, batteryVars, textVars>>
    \/ \E g \in GenerationCalls : GenerationTimeout(g) /\ UNCHANGED <<windowVars, batteryVars, textVars>>
    \/ \E g \in GenerationCalls : NoCallRejection(g) /\ UNCHANGED <<windowVars, batteryVars, textVars>>
    \/ \E path \in ModelPaths : Initialize(path) /\ UNCHANGED <<windowVars, batteryVars, textVars>>
    \/ \E i \in InitCalls : InitCleanupWaitDone(i) /\ UNCHANGED <<windowVars, batteryVars, textVars>>
    \/ \E i \in InitCalls : InitAfterCleanup(i) /\ UNCHANGED <<windowVars, batteryVars, textVars>>
    \/ \E i \in InitCalls : InitMockDone(i) /\ UNCHANGED <<windowVars, batteryVars, textVars>>
    \/ \E i \in InitCalls, kind \in SessionKinds :
            InitLlamaReturn(i, kind) /\ UNCHANGED <<windowVars, batteryVars, textVars>>
    \/ \E i \in InitCalls, c \in InitErrors :
            InitLlamaThrow(i, c) /\ UNCHANGED <<windowVars, batteryVars, textVars>>
    \/ Cleanup /\ UNCHANGED <<windowVars, batteryVars, textVars>>
    \/ CleanupWaitDone /\ UNCHANGED <<windowVars, batteryVars, textVars>>

Spec == Init /\ [][Next]_vars

(***************************************************************************)
(* The orchestrator under a caller that awaits each call before the next,  *)
(* with every message list up to MaxMessages as input.                     *)
(***************************************************************************)

Idle == PendingCalls = 0

SequentialNext ==
    \/ \E input \in Inputs, opt \in MaxTokensOptions :
            Idle /\ Generate(input, opt) /\ UNCHANGED <<windowVars, batteryVars, textVars>>
    \/ \E g \in GenerationCalls, r \in NativeResults :
            NativeReturn(g, r) /\ UNCHANGED <<windowVars, batteryVars, textVars>>
    \/ \E g \in GenerationCalls, c \in NativeErrors :
            NativeThrow(g, c) /\ UNCHANGED <<windowVars, batteryVars, textVars>>
    \/ \E g \in GenerationCalls : GenerationTimeout(g) /\ UNCHANGED <<windowVars, batteryVars, textVars>>
    \/ \E g \in GenerationCalls : NoCallRejection(g) /\ UNCHANGED <<windowVars, batteryVars, textVars>>
    \/ \E path \in ModelPaths : Idle /\ Initialize(path) /\ UNCHANGED <<windowVars, batteryVars, textVars>>
    \/ \E i \in InitCalls : InitAfterCleanup(i) /\ UNCHANGED <<windowVars, batteryVars, textVars>>
    \/ \E i \in InitCalls : InitMockDone(i) /\ UNCHANGED <<windowVars, batteryVars, textVars>>
    \/ \E i \in InitCalls, kind \in SessionKinds :
            InitLlamaReturn(i, kind) /\ UNCHANGED <<windowVars, batteryVars, textVars>>
    \/ \E i \in InitCalls, c \in InitErrors :
            InitLlamaThrow(i, c) /\ UNCHANGED <<windowVars, batteryVars, textVars>>
    \/ Idle /\ Cleanup /\ UNCHANGED <<windowVars, batteryVars, textVars>>

SequentialSpec == Init /\ [][SequentialNext]_vars

(***************************************************************************)
(* Claims: single-flight generation                                        *)
(***************************************************************************)

InFlight == BagCardinality(generations)

RealEngine == isInitialized /\ modelPath \notin {NULL, MOCK} /\ context # NULL

\* C1: under any interleaving of generate, initialize and cleanup calls, at
\* most one generation is in progress (admitted and not yet settled).
C1_SingleFlight == InFlight <= 1

\* C2: a generate call made on a real-engine orchestrator while an earlier
\* generate call is outstanding is rejected with the concurrency error.
C2_SecondCallRejected ==
    [][(ev'.op = "generate" /\ RealEngine /\ InFlight >= 1)
        => ev'.out = Rejected("Busy", "-")]_vars

\* C3: a generate call rejected for concurrency changes no orchestrator
\* state: the generating flag stays true, session, model path, initialized
\* flag and the suspended calls are as before, and no native call is made.
C3_BusyRejectionChangesNothing ==
    [][(ev'.op = "generate" /\ ev'.out = Rejected("Busy", "-"))
        => /\ isGenerating /\ isGenerating'
           /\ ~ev'.called
           /\ UNCHANGED <<context, modelPath, isInitialized, generations,
                          initializations, cleanups, orphaned>>]_vars

C3_Witness ==
    /\ ev.op = "generate" /\ ev.out = Rejected("Busy", "-")
    /\ RealEngine /\ isGenerating /\ InFlight = 1

\* C4: when the timer of generateWithTimeout fires before the native call
\* has returned, the generate call rejects with the timeout error, and the
\* generating flag is false afterwards.
C4_TimeoutRejects ==
    ev.op = "timeout" => (ev.out = Rejected("TimedOut", "Timeout") /\ ~isGenerating)

\* C5: whenever no generate call is outstanding, the generating flag is
\* false: every exit path of an admitted call clears it.
C5_FlagClearWhenNoneOutstanding == InFlight = 0 => ~isGenerating

C5_Witness ==
    /\ ev.op = "timeout" /\ ev.out = Rejected("TimedOut", "Timeout")
    /\ InFlight = 0 /\ ~isGenerating

\* C6: generate on an orchestrator that is not initialized rejects with the
\* not-initialized error, makes no native call and leaves the generating
\* flag and the rest of the state as they were.
C6_UninitializedRejects ==
    [][(ev'.op = "generate" /\ ~isInitialized)
        => /\ ev'.out = Rejected("NotInitialized", "-")
           /\ ~ev'.called
           /\ UNCHANGED <<context, modelPath, isInitialized, isGenerating,
                          generations, initializations, cleanups, orphaned>>]_vars

\* generate was refused on an engine that cleanup() has reset while an
\* earlier generation was still in flight.
C6_Witness ==
    /\ ev.op = "generate" /\ ev.out = Rejected("NotInitialized", "-")
    /\ ~isInitialized /\ modelPath = NULL /\ InFlight = 1

(***************************************************************************)
(* Claims: input validation                                                *)
(***************************************************************************)

HasUser(ms) == \E i \in 1..Len(ms) : ms[i].role = "user"

\* An empty message list, or a message list without a user-role message.
Malformed(input) == input.kind = "messages" /\ ~HasUser(input.msgs)

ResolvedMaxTokens(opt) == IF opt = <<>> THEN DEFAULT_MAX_TOKENS ELSE opt[1]

\* C7: on an initialized orchestrator a generate call with an empty message
\* list, or one without a user-role message, is rejected, and no native
\* generation call is made for it.
C7_MalformedInputRejected ==
    \A input \in Inputs, opt \in MaxTokensOptions :
        (isInitialized /\ Malformed(input))
        => LET r == GenerateSync(input, ResolvedMaxTokens(opt))
           IN  r.out.outcome = "rejected" /\ ~r.called /\ r.gen = <<>>

\* C7 as amended: with a real engine attached the call is rejected, in stub
\* mode it resolves with a canned response; in both cases no native
\* generation call is made.
C7_MalformedInputNeverReachesNative ==
    \A input \in Inputs, opt \in MaxTokensOptions :
        (isInitialized /\ Malformed(input))
        => LET r == GenerateSync(input, ResolvedMaxTokens(opt))
           IN  /\ ~r.called /\ r.gen = <<>>
               /\ IF modelPath = MOCK /\ ~isGenerating
                  THEN r.out = Canned
                  ELSE r.out.outcome = "rejected"

C7_Witness ==
    /\ ev.op = "generate" /\ ~ev.called
    /\ ev.out \in {Rejected("Failed", "EmptyMessages"),
                  Rejected("Failed", "NoUserMessage")}
    /\ RealEngine /\ InFlight = 0

\* C8: for every input generate accepts, the message list handed to the
\* native generation call starts with a system-role message and contains a
\* user-role message.
C8_NativeMessagesWellFormed ==
    \A input \in Inputs, opt \in MaxTokensOptions :
        LET r == GenerateSync(input, ResolvedMaxTokens(opt))
        IN  r.called => /\ r.native # <<>>
                        /\ r.native[1].role = "system"
                        /\ HasUser(r.native)

\* C9: when the real engine returns empty or whitespace-only text, generate
\* rejects: it returns neither an empty string nor a canned response.
C9_BlankEngineTextRejects ==
    (ev.op = "return" /\ ev.blank) => ev.out.outcome = "rejected"

(***************************************************************************)
(* The context window manager under any sequence of addMessage and clear   *)
(***************************************************************************)

\* The embeddings the message at the given position of `added` may carry.
EmbeddingsAt(position) ==
    IF position <= MaxEmbedded THEN MessageEmbeddings ELSE {<<>>}

WindowNext ==
    \/ \E e \in EmbeddingsAt(Len(added) + 1) :
            addMessage(StoredMessage(nextId, e)) /\ UNCHANGED <<engineVars, batteryVars, textVars>>
    \/ \E q \in QueryVectors, k \in TopKs :
            RetrieveRelevantContext(q, k) /\ UNCHANGED <<engineVars, batteryVars, textVars>>
    \/ \E q \in QueryOptions : BuildContext(q) /\ UNCHANGED <<engineVars, batteryVars, textVars>>
    \/ clear /\ UNCHANGED <<engineVars, batteryVars, textVars>>

WindowSpec == Init /\ [][WindowNext]_vars

(***************************************************************************)
(* Claims: the sliding window                                              *)
(***************************************************************************)

\* C10: after N > 10 addMessage calls since construction or the last
\* clear, the active window is the 10 most recently added messages in the
\* order added, and archived is the N - 10 oldest in the order added.
C10_WindowKeepsTenNewest ==
    Len(added) > 10
    => /\ activeWindow = SubSeq(added, Len(added) - 9, Len(added))
       /\ archivedMessages = SubSeq(added, 1, Len(added) - 10)

C10_Witness ==
    /\ Len(added) = 12 /\ Len(archivedMessages) = 2 /\ Len(activeWindow) = 10
    /\ archivedMessages[1].id = 1

\* C11: under any sequence of addMessage, retrieveRelevantContext,
\* buildContext and clear calls the active window holds at most 10
\* messages, the archive is empty until more than 10 messages have been
\* added since the last clear, and both are empty right after clear.
C11_WindowBounded ==
    /\ Len(activeWindow) <= 10
    /\ (Len(added) <= 10 => archivedMessages = <<>>)
    /\ (wev.op = "clear" => (activeWindow = <<>> /\ archivedMessages = <<>>))

\* buildContext has been called on a full window with a non-empty archive.
C11_Witness ==
    /\ wev.op = "buildContext"
    /\ Len(activeWindow) = 10 /\ Len(archivedMessages) = 3

(***************************************************************************)
(* Claims: semantic retrieval                                              *)
(***************************************************************************)

\* The place of a message in the archive (ids are distinct in it).
ArchiveIndex(m) == CHOOSE i \in 1..Len(archivedMessages) : archivedMessages[i] = m

SimilarityTo(q, m) == cosineSimilarity(q, m.embedding[1]).score

\* Scores that are numbers do not increase along the list, and of two
\* messages with one score the one archived first comes first.
OrderedBySimilarity(q, ms) ==
    \A i, j \in 1..Len(ms) :
        (i < j /\ ~IsNaN(SimilarityTo(q, ms[i])) /\ ~IsNaN(SimilarityTo(q, ms[j])))
        => /\ ~ScoreLess(SimilarityTo(q, ms[i]), SimilarityTo(q, ms[j]))
           /\ ScoreLess(SimilarityTo(q, ms[j]), SimilarityTo(q, ms[i]))
               \/ ArchiveIndex(ms[i]) < ArchiveIndex(ms[j])

HasEmbedding(m) == m.embedding # <<>>

\* C12: retrieveRelevantContext(q, k) returns at most k messages, each an
\* archived message that carries an embedding, ordered by non-increasing
\* similarity to q with equal scores in archive order; it returns the empty
\* list when no archived message has an embedding.
C12_RetrievalOrdered ==
    \A q \in QueryVectors, k \in TopKs :
        \A out \in retrieveRelevantContext(q, k) :
            out.ok
            => /\ Len(out.result) <= k
               /\ \A i \in 1..Len(out.result) :
                     /\ \E j \in 1..Len(archivedMessages) :
                            archivedMessages[j] = out.result[i]
                     /\ HasEmbedding(out.result[i])
               /\ OrderedBySimilarity(q, out.result)
               /\ (\A j \in 1..Len(archivedMessages) :
                        ~HasEmbedding(archivedMessages[j]))
                  => out.result = <<>>

\* A query embedding is supplied and is not the empty array.
Supplied(q) == q # <<>> /\ q[1] # <<>>

BuildContextResult ==
    \A q \in QueryOptions :
        \A out \in buildContext(q) :
            out.ok
            => IF Supplied(q)
               THEN \E r \in retrieveRelevantContext(q[1], 3) :
                        /\ r.ok /\ Len(r.result) <= 3
                        /\ out.result = r.result \o activeWindow
               ELSE out.result = activeWindow

\* C13: buildContext returns the retrieved archived messages (at most 3)
\* followed by the whole active window in its stored order when a non-empty
\* query embedding is supplied, and exactly the active window when none or
\* an empty one is supplied; it changes neither active nor archived.
C13_BuildContext ==
    /\ []BuildContextResult
    /\ [][wev'.op = "buildContext"
           => UNCHANGED <<activeWindow, archivedMessages>>]_vars

\* buildContext has returned three archived messages before a full window.
C13_Witness ==
    /\ wev.op = "buildContext" /\ wev.ok /\ wev.n = 3
    /\ Len(activeWindow) = 10

\* The length of q differs from that of the embedding of some archived
\* message.
LengthDiffers(q) ==
    \E j \in 1..Len(archivedMessages) :
        /\ HasEmbedding(archivedMessages[j])
        /\ Len(archivedMessages[j].embedding[1]) # Len(q)

RetrieveFailsOnMismatch ==
    \A q \in QueryVectors, k \in TopKs :
        LengthDiffers(q)
        => retrieveRelevantContext(q, k) = {Thrown(DimensionMismatch)}

FailedCallChangesNothing ==
    (wev'.op \in {"retrieveRelevantContext", "buildContext"} /\ ~wev'.ok)
    => UNCHANGED <<activeWindow, archivedMessages>>

\* C14: when the length of the query embedding differs from that of the
\* embedding of some archived message, retrieveRelevantContext, and
\* buildContext through it, fails with the dimension-mismatch error, and
\* active and archived are left unchanged.
C14_MismatchFails ==
    /\ []RetrieveFailsOnMismatch
    /\ [](\A q \in QueryVectors :
             LengthDiffers(q) => buildContext(<<q>>) = {Thrown(DimensionMismatch)})
    /\ [][FailedCallChangesNothing]_vars

\* C14 as amended: buildContext fails so when the query embedding is not
\* the empty array; given the empty array it does no retrieval and returns
\* the active window.
C14_MismatchFailsUnlessQueryEmpty ==
    /\ []RetrieveFailsOnMismatch
    /\ [](\A q \in QueryVectors :
             LengthDiffers(q)
             => buildContext(<<q>>) = IF q # <<>> THEN {Thrown(DimensionMismatch)}
                                      ELSE {Returned(activeWindow)})
    /\ [][FailedCallChangesNothing]_vars

\* buildContext has failed on an archive of three messages.
C14_Witness ==
    /\ wev.op = "buildContext" /\ ~wev.ok
    /\ Len(archivedMessages) = 3 /\ Len(activeWindow) = 10

(***************************************************************************)
(* The power state under any sequence of listener events, with the policy  *)
(* functions called in every state                                         *)
(***************************************************************************)

PowerNext ==
    \/ \E l \in Levels :
            BatteryLevelChanged(l) /\ UNCHANGED <<engineVars, windowVars, textVars>>
    \/ \E c \in BOOLEAN :
            BatteryStateChanged(c) /\ UNCHANGED <<engineVars, windowVars, textVars>>
    \/ \E b \in BOOLEAN :
            LowPowerModeChanged(b) /\ UNCHANGED <<engineVars, windowVars, textVars>>
    \/ ShouldThrottleInference /\ UNCHANGED <<engineVars, windowVars, textVars>>
    \/ GetBatchConfig /\ UNCHANGED <<engineVars, windowVars, textVars>>
    \/ GetRecommendedDelay /\ UNCHANGED <<engineVars, windowVars, textVars>>

PowerSpec == Init /\ [][PowerNext]_vars

(***************************************************************************)
(* The batch queue under any interleaving of arrivals, timer expiries,     *)
(* executor completions, changes of level and charging, and cleanup()      *)
(***************************************************************************)

BatchNext ==
    \/ \E l \in BatchLevels :
            BatteryLevelChanged(l) /\ UNCHANGED <<engineVars, windowVars, textVars>>
    \/ \E c \in BOOLEAN :
            BatteryStateChanged(c) /\ UNCHANGED <<engineVars, windowVars, textVars>>
    \/ QueueInference /\ UNCHANGED <<engineVars, windowVars, textVars>>
    \/ \E t \in timers : TimerFires(t) /\ UNCHANGED <<engineVars, windowVars, textVars>>
    \/ \E b \in executing : ExecutorReturn(b) /\ UNCHANGED <<engineVars, windowVars, textVars>>
    \/ \E b \in executing : ExecutorThrow(b) /\ UNCHANGED <<engineVars, windowVars, textVars>>
    \/ BatteryCleanup /\ UNCHANGED <<engineVars, windowVars, textVars>>

\* The battery service does not depend on the native module being there.
BatchInit == Init /\ nativeAvailable = TRUE

BatchSpec == BatchInit /\ [][BatchNext]_vars

(***************************************************************************)
(* Claims: power policies                                                  *)
(***************************************************************************)

\* C15: for every power state shouldThrottleInference() is true exactly
\* when the device is not charging and (level < 0.20 or low-power mode is
\* on); when charging it is false whatever the level and low-power mode.
C15_ThrottleRule ==
    /\ shouldThrottleInference
           = (~isCharging /\ (currentBatteryLevel < 20 \/ isLowPowerMode))
    /\ (isCharging => ~shouldThrottleInference)
    /\ (bev.op = "shouldThrottleInference"
           => bev.value = (~isCharging /\ (currentBatteryLevel < 20 \/ isLowPowerMode)))

\* shouldThrottleInference() has returned false on a charging device at
\* level 0.05 in low-power mode.
C15_Witness ==
    /\ bev = BEvent("shouldThrottleInference", FALSE)
    /\ isCharging /\ currentBatteryLevel = 5 /\ isLowPowerMode

\* The rule of C16 for the current power state.
BatchRule ==
    IF isCharging THEN BatchConfig(1, 100)
    ELSE IF currentBatteryLevel < 20 \/ isLowPowerMode THEN BatchConfig(5, 5000)
    ELSE IF currentBatteryLevel < 50 THEN BatchConfig(3, 2000)
    ELSE BatchConfig(2, 1000)

\* C16: for every power state getBatchConfig() returns {1,100} when
\* charging; otherwise {5,5000} when level < 0.20 or low-power mode is on;
\* otherwise {3,2000} when level < 0.50; otherwise {2,1000}.
C16_BatchConfigRule ==
    /\ getBatchConfig = BatchRule
    /\ (bev.op = "getBatchConfig" => bev.value = BatchRule)
    /\ (isCharging => getBatchConfig = BatchConfig(1, 100))
    /\ (~isCharging /\ isLowPowerMode /\ currentBatteryLevel >= 50
           => getBatchConfig = BatchConfig(5, 5000))
    /\ (~isCharging /\ ~isLowPowerMode /\ currentBatteryLevel = 20
           => getBatchConfig = BatchConfig(3, 2000))
    /\ (~isCharging /\ ~isLowPowerMode /\ currentBatteryLevel = 50
           => getBatchConfig = BatchConfig(2, 1000))

\* getBatchConfig() has returned {5,5000} in low-power mode at level 0.40,
\* where the rule for level < 0.50 matches as well.
C16_Witness ==
    /\ bev = BEvent("getBatchConfig", BatchConfig(5, 5000))
    /\ ~isCharging /\ isLowPowerMode /\ currentBatteryLevel = 40

\* The rule of C17 for the current power state.
DelayRule ==
    IF isCharging THEN 0
    ELSE IF currentBatteryLevel < 15 THEN 5000
    ELSE IF currentBatteryLevel < 30 THEN 2000
    ELSE 0

\* C17: for every power state getRecommendedDelay() returns 0 when
\* charging; otherwise 5000 when level < 0.15; otherwise 2000 when
\* level < 0.30; otherwise 0, whatever low-power mode is.
C17_DelayRule ==
    /\ getRecommendedDelay = DelayRule
    /\ (bev.op = "getRecommendedDelay" => bev.value = DelayRule)
    /\ (~isCharging /\ currentBatteryLevel = 14 => getRecommendedDelay = 5000)
    /\ (~isCharging /\ currentBatteryLevel \in {15, 29} => getRecommendedDelay = 2000)
    /\ (currentBatteryLevel >= 30 => getRecommendedDelay = 0)

\* getRecommendedDelay() has returned 0 in low-power mode at level 0.30.
C17_Witness ==
    /\ bev = BEvent("getRecommendedDelay", 0)
    /\ ~isCharging /\ isLowPowerMode /\ currentBatteryLevel = 30

(***************************************************************************)
(* Claims: the batch queue                                                 *)
(***************************************************************************)

\* The step is a queueInference call.
Arrival == Len(callers') = Len(callers) + 1

\* The tracked timer is the only timer there is.
OneTimer ==
    /\ Cardinality(timers) <= 1
    /\ timers = (IF batchInterval = <<>> THEN {} ELSE {batchInterval[1]})

ArrivalRule ==
    LET caller == Len(callers) + 1
        queue == Append(pendingInferenceQueue, caller)
        config == getBatchConfig
    IN  IF Len(queue) >= config.maxBatchSize
        THEN /\ pendingInferenceQueue' = <<>>
             /\ executing' = executing \cup {queue}
             /\ timers' = {} /\ batchInterval' = <<>>
        ELSE /\ pendingInferenceQueue' = queue
             /\ executing' = executing
             /\ IF timers = {}
                THEN timers' = {Timer(caller, config.maxWaitTimeMs)}
                ELSE timers' = timers /\ batchInterval' = batchInterval

\* C18: an arrival that makes the pending queue reach maxBatchSize flushes
\* at once; any other arrival arms a wait-timer only if none is armed, so
\* that there is at most one wait-timer at any time and a later arrival
\* neither re-arms nor extends an armed timer.
C18_ArrivalFlushesOrArmsOnce ==
    /\ []OneTimer
    /\ [][Arrival => ArrivalRule]_vars

\* A fourth caller has arrived while the timer armed by the first was
\* still armed for 5000 ms, and waits with the three before it.
C18_Witness ==
    /\ bev = BEvent("queueInference", 4)
    /\ pendingInferenceQueue = <<1, 2, 3, 4>>
    /\ timers = {Timer(1, 5000)}

\* Every caller is waiting in the queue, or in exactly one batch the
\* executor is working on, or settled.
EachCallerInOnePlace ==
    \A c \in 1..Len(callers) :
        LET inQueue == InBatch(pendingInferenceQueue, c)
            batches == {b \in executing : InBatch(b, c)}
        IN  IF callers[c] # Waiting THEN ~inQueue /\ batches = {}
            ELSE IF inQueue THEN batches = {}
            ELSE Cardinality(batches) = 1

\* The batch handed to the executor is the whole queue in arrival order.
FlushTakesWholeQueue ==
    /\ Cardinality(executing' \ executing) <= 1
    /\ \A b \in executing' \ executing :
          /\ pendingInferenceQueue' = <<>>
          /\ b = (IF Arrival THEN Append(pendingInferenceQueue, Len(callers) + 1)
                  ELSE pendingInferenceQueue)
          /\ \A i, j \in 1..Len(b) : i < j => b[i] < b[j]

\* A promise changes only when the executor call of its batch ends.
OnlyBatchMembersSettle ==
    \A c \in 1..Len(callers) :
        callers'[c] # callers[c]
        => /\ bev'.op \in {"executorReturn", "executorThrow"}
           /\ bev'.value \in executing /\ bev'.value \notin executing'
           /\ InBatch(bev'.value, c)
           /\ callers[c] = Waiting

BatchSettledAsOne ==
    /\ bev.op = "executorReturn"
          => \A i \in 1..Len(bev.value) : callers[bev.value[i]] = ResolvedWith(i)
    /\ bev.op = "executorThrow"
          => \A i \in 1..Len(bev.value) : callers[bev.value[i]] = RejectedWithError

\* C19: on each flush the executor is invoked once with the items of all
\* pending callers in arrival order; if it succeeds the caller at position
\* i resolves with result i; if it fails every caller of that batch
\* rejects and none resolves; callers of other batches are unaffected.
C19_BatchSettlement ==
    /\ []EachCallerInOnePlace
    /\ []BatchSettledAsOne
    /\ [][FlushTakesWholeQueue /\ OnlyBatchMembersSettle]_vars

\* A batch of three has failed after another batch had succeeded.
C19_Witness ==
    /\ bev.op = "executorThrow" /\ Len(bev.value) = 3
    /\ \E c \in 1..Len(callers) : callers[c].state = "resolved"
    /\ \A i \in 1..3 : callers[bev.value[i]] = RejectedWithError

(***************************************************************************)
(* Claims: re-initialization                                               *)
(***************************************************************************)

\* The step is an initialize(h) call on an engine whose isInitialized is
\* set and whose modelPath is h.
InitializeWithSamePath ==
    /\ ev'.op = "initialize"
    /\ isInitialized /\ modelPath = ev'.path

\* C20: initialize(h) on an engine already initialized with the same h
\* returns at once: no session is acquired, released or dropped, no call
\* is left suspended, and context, modelPath, isInitialized and
\* isGenerating keep their values, also while a generation is in flight.
C20_InitializeSamePathNoOp ==
    [][InitializeWithSamePath
        => /\ ev'.out = Void
           /\ UNCHANGED <<nativeAvailable, context, modelPath, isInitialized,
                          isGenerating, generations, initializations,
                          cleanups, orphaned>>]_vars

\* initialize("A") has returned on an engine that holds a native session
\* for "A" and has a generation in flight.
C20_Witness ==
    /\ ev.op = "initialize" /\ ev.out = Void /\ ev.path = "A"
    /\ isInitialized /\ modelPath = "A" /\ context # NULL
    /\ isGenerating /\ generations # EmptyBag

(***************************************************************************)
(* Claims: initialization failure, stub mode, cleanup                      *)
(***************************************************************************)

\* Lines 115-117: isLoaded()
isLoaded == isInitialized /\ (modelPath = MOCK \/ context # NULL)

\* The engine holds nothing: the state after construction.
Uninitialized ==
    ~isLoaded /\ ~isInitialized /\ context = NULL /\ modelPath = NULL

\* C21: when initLlama fails, or the path is refused before it, the
\* initialize call rejects with an error and the engine is Uninitialized
\* right after (isLoaded() false, no session, no model path), whatever the
\* engine held when the call was made or when it failed.
C21_InitFailureResets ==
    /\ ev.op = "initLlamaFailed" => ev.out.outcome = "rejected"
    /\ (ev.op \in {"initialize", "initResume", "initLlamaFailed"}
            /\ ev.out.outcome = "rejected")
        => Uninitialized

\* initLlama has failed for "A" with a memory error.
C21_Witness ==
    /\ ev.op = "initLlamaFailed" /\ ev.path = "A"
    /\ ev.out = Rejected("InsufficientMemory", "InitMemory")
    /\ Uninitialized

\* An initialize call has settled (returned or thrown) in this step.
InitializeSettled ==
    /\ ev.op \in {"initialize", "initResume", "initMockDone", "initLlamaDone",
                  "initLlamaFailed"}
    /\ ev.out # Pending

\* C22: an initialize call with an unusable path (the empty path), or on a
\* platform without the native module, does not fail: when it settles it
\* has returned, the engine is in mock mode with isLoaded() true, and a
\* generate call made then returns a canned response.
C22_UnusableHandleEntersStub ==
    (InitializeSettled /\ (ev.path = "" \/ ~nativeAvailable))
    => /\ ev.out = Void
       /\ modelPath = MOCK /\ isLoaded
       /\ \A input \in SampleInputs :
             ~isGenerating => GenerateSync(input, DEFAULT_MAX_TOKENS).out = Canned

\* The orchestrator with one cleanup() call at a time, one input and two
\* native results.  The timer of the polling loop of cleanup (line 577)
\* fires, so a waiting cleanup() takes its next step; nothing is assumed
\* about the native call of a generation, which may never return.
CleanupInputs == {StringInput(<<"h">>)}

CleanupResults == {StringResult(<<"o", "k">>), StringResult(<<" ">>)}

CleanupNext ==
    \/ \E input \in CleanupInputs :
            Generate(input, <<>>) /\ UNCHANGED <<windowVars, batteryVars, textVars>>
    \/ \E g \in GenerationCalls, r \in CleanupResults :
            NativeReturn(g, r) /\ UNCHANGED <<windowVars, batteryVars, textVars>>
    \/ \E g \in GenerationCalls, c \in NativeErrors :
            NativeThrow(g, c) /\ UNCHANGED <<windowVars, batteryVars, textVars>>
    \/ \E g \in GenerationCalls : GenerationTimeout(g) /\ UNCHANGED <<windowVars, batteryVars, textVars>>
    \/ \E g \in GenerationCalls : NoCallRejection(g) /\ UNCHANGED <<windowVars, batteryVars, textVars>>
    \/ \E path \in ModelPaths : Initialize(path) /\ UNCHANGED <<windowVars, batteryVars, textVars>>
    \/ \E i \in InitCalls : InitCleanupWaitDone(i) /\ UNCHANGED <<windowVars, batteryVars, textVars>>
    \/ \E i \in InitCalls : InitAfterCleanup(i) /\ UNCHANGED <<windowVars, batteryVars, textVars>>
    \/ \E i \in InitCalls : InitMockDone(i) /\ UNCHANGED <<windowVars, batteryVars, textVars>>
    \/ \E i \in InitCalls, kind \in SessionKinds :
            InitLlamaReturn(i, kind) /\ UNCHANGED <<windowVars, batteryVars, textVars>>
    \/ \E i \in InitCalls, c \in InitErrors :
            InitLlamaThrow(i, c) /\ UNCHANGED <<windowVars, batteryVars, textVars>>
    \/ cleanups = 0 /\ Cleanup /\ UNCHANGED <<windowVars, batteryVars, textVars>>
    \/ CleanupWaitDone /\ UNCHANGED <<windowVars, batteryVars, textVars>>

CleanupSpec ==
    /\ Init /\ [][CleanupNext]_vars
    /\ WF_vars(CleanupWaitDone /\ UNCHANGED <<windowVars, batteryVars, textVars>>)

\* cleanup() has finished in this step.
CleanupFinished ==
    \/ ev.op = "cleanup" /\ ev.out = Void
    \/ ev.op = "cleanupDone"

\* C23: a cleanup() call always finishes, also when the generation in
\* flight never settles, and when it finishes the engine is Uninitialized
\* with the generating flag clear, also when releasing the session threw.
C23_CleanupCompletesAndResets ==
    /\ [](CleanupFinished => (Uninitialized /\ ~isGenerating))
    /\ (cleanups > 0) ~> (cleanups = 0)

\* A cleanup() that waited has finished while the generation it waited
\* for is still in flight, and the session was dropped unreleased.
C23_Witness ==
    /\ ev.op = "cleanupDone" /\ InFlight = 1 /\ orphaned
    /\ Uninitialized /\ ~isGenerating

(***************************************************************************)
(* The post-processing of every engine response of the bounded sets        *)
(***************************************************************************)

TextInit ==
    /\ EngineInit /\ nativeAvailable = TRUE /\ WindowInit /\ BatteryInit
    /\ engineText \in EngineResponses
    /\ optsMaxTokens \in TextMaxTokens
    /\ cleanedResponse = <<>>
    /\ truncateInput = <<>>
    /\ truncatedResponse = Pending
    /\ tstage = "resolved"

TextNext ==
    PostProcessResponse /\ UNCHANGED <<engineVars, windowVars, batteryVars>>

TextSpec == TextInit /\ [][TextNext]_vars

(***************************************************************************)
(* Claims: post-processing                                                 *)
(***************************************************************************)

\* The characters of s that are not whitespace, in order.
NonWS(s) == SelectSeq(s, LAMBDA c : ~IsWS(c))

\* s without some (none to all) of the markers END and EOT that are its
\* last non-whitespace content.
RECURSIVE TrailingStrips(_)
TrailingStrips(s) ==
    LET e == TrimEnd(s)
        without(marker) ==
            IF EndsWith(e, marker)
            THEN TrailingStrips(SubSeq(e, 1, Len(e) - Len(marker)))
            ELSE {}
    IN  {s} \cup without(END) \cup without(EOT)

\* s with or without the assistant marker that is its first
\* non-whitespace content.
LeadingStrips(s) ==
    LET b == TrimStart(s)
    IN  {s} \cup (IF StartsWith(b, ASSISTANT_START)
                  THEN {SubstringFrom(b, Len(ASSISTANT_START))} ELSE {})

EndsWithMarker(s) == EndsWith(TrimEnd(s), END) \/ EndsWith(TrimEnd(s), EOT)

\* C24: cleanResponse removes markers END and EOT only where they are the
\* last non-whitespace content of the engine text, and removes one when
\* the text ends with it; apart from such trailing markers, a leading
\* assistant marker and whitespace, every character of the engine text is
\* in the cleaned text, in order.
C24_OnlyTrailingMarkersRemoved ==
    tstage = "returned"
    => /\ \E a \in TrailingStrips(engineText) : \E b \in LeadingStrips(a) :
              NonWS(cleanedResponse) = NonWS(b)
       /\ EndsWithMarker(engineText)
              => NonWS(cleanedResponse) # NonWS(engineText)

\* The number of places of s where p occurs.
Occurrences(s, p) ==
    Cardinality({i \in 1..Len(s) : StartsWith(SubstringFrom(s, i - 1), p)})

LeadingAssistant(s) == StartsWith(Trim(s), ASSISTANT_START)

\* C25: when the trimmed engine text starts with the assistant marker,
\* cleanResponse removes that one marker and returns what follows it (less
\* trailing markers and whitespace); an assistant marker anywhere else in
\* the text stays.
C25_LeadingAssistantMarkerRemoved ==
    tstage = "returned"
    => /\ LeadingAssistant(engineText)
            => \E a \in TrailingStrips(
                          SubstringFrom(Trim(engineText), Len(ASSISTANT_START))) :
                   NonWS(cleanedResponse) = NonWS(a)
       /\ Occurrences(cleanedResponse, ASSISTANT_START)
            = Occurrences(engineText, ASSISTANT_START)
                - (IF LeadingAssistant(engineText) THEN 1 ELSE 0)

\* Line 486: the text given to the truncation is longer than the budget.
TruncationApplies ==
    tstage = "returned" /\ Len(truncateInput) > optsMaxTokens * 4

\* Sentence ends of the text whose punctuation is within the budget.
PunctuationInBudget ==
    {p \in SentenceEnds(truncateInput) : p <= optsMaxTokens * 4}

\* Sentence ends of the text whose punctuation and the whitespace
\* character after it are within the budget.
SentenceEndInBudget ==
    {p \in SentenceEnds(truncateInput) : p + 1 <= optsMaxTokens * 4}

\* The returned text is the text up to the punctuation at position p.
ReturnedEndsAt(p) ==
    /\ truncatedResponse = Resolved(TrimStart(SubSeq(truncateInput, 1, p)))
    /\ truncatedResponse.val # <<>>
    /\ truncatedResponse.val[Len(truncatedResponse.val)] = truncateInput[p]

\* C26: when the text is longer than the budget maxTokens * 4 and has a
\* sentence end (., ! or ? followed by whitespace) whose punctuation is
\* within the budget, the returned text ends at the latest such sentence
\* end, so not inside a word.
C26_EndsAtLatestPunctuationInBudget ==
    (TruncationApplies /\ PunctuationInBudget # {})
    => ReturnedEndsAt(SetMax(PunctuationInBudget))

\* C26 as amended: the same for sentence ends whose punctuation and the
\* whitespace character after it are both within the budget.
C26_EndsAtLatestSentenceEndInBudget ==
    (TruncationApplies /\ SentenceEndInBudget # {})
    => ReturnedEndsAt(SetMax(SentenceEndInBudget))

\* A text with two sentence ends within the budget has been cut at the
\* second.
C26_Witness ==
    /\ TruncationApplies /\ Cardinality(SentenceEndInBudget) = 2
    /\ ReturnedEndsAt(SetMax(SentenceEndInBudget))

(***************************************************************************)
(* Claims: the raw prompt                                                  *)
(***************************************************************************)

\* C27: for every input generate hands to a session that offers only
\* prompt(), the prompt built by formatMessages ends with the assistant
\* start marker and a newline, with no content after the marker, also when
\* the last message has the assistant role.
C27_PromptEndsWithBareAssistantMarker ==
    \A input \in Inputs :
        LET r == GenerateSync(input, DEFAULT_MAX_TOKENS)
        IN  (context = "prompt" /\ r.called)
            => /\ formatMessages(r.native).ok
               /\ EndsWith(formatMessages(r.native).prompt,
                           ASSISTANT_START \o <<"\n">>)

(***************************************************************************)
(* Claims: the real engine's results                                       *)
(***************************************************************************)

\* A generate call that was suspended at its native call has settled in
\* this step.  Only a call made with a session attached and modelPath
\* other than 'mock' is suspended (lines 224-231).
AdmittedCallSettled == ev.op \in {"return", "throw", "timeout", "nocall"}

\* C28: a generate call admitted with a real session attached never
\* resolves with a canned mock response, whatever initialize and cleanup
\* calls run before it settles: it resolves with post-processed engine
\* text or rejects.
C28_AdmittedCallNeverCanned ==
    AdmittedCallSettled => ~ev.out.canned

\* The native result carries no text: null, undefined, or an object with
\* none of the fields text, content, response, message.
NoText(result) ==
    \/ result.kind \in {"null", "undefined"}
    \/ /\ result.kind = "object"
       /\ \A f \in {result.text, result.content, result.response, result.message} :
              f = <<>>

\* What the suspended generate call g settles with if its native call
\* returns the given result now.
SettlesWith(g, result) ==
    LET n == NormalizeResult(result)
    IN  Continue(n.ok, n.text, n.cause, g.maxTokens)

\* C29: when the native call of a generate call returns a value that
\* carries no text, the generate call rejects; it does not resolve with a
\* string made from that value.
C29_NoTextRejects ==
    \A g \in BagToSet(generations) : \A result \in NativeResults :
        (g.state = "native" /\ NoText(result))
        => SettlesWith(g, result).outcome = "rejected"

\* The first of the fields text, content, response, message that holds a
\* string, as <<string>>; <<>> when none does.
FirstStringField(result) ==
    IF result.text # <<>> THEN result.text
    ELSE IF result.content # <<>> THEN result.content
    ELSE IF result.response # <<>> THEN result.response
    ELSE result.message

\* C30: a native result object is normalised by the first of its fields
\* text, content, response, message that holds a string: if that string is
\* empty or blank generateWithTimeout fails, whatever the later fields
\* hold, and otherwise it resolves with that string, which generate
\* post-processes.
C30_FirstStringFieldDecides ==
    \A g \in BagToSet(generations) : \A result \in ObjectResults :
        (g.state = "native" /\ FirstStringField(result) # <<>>)
        => LET s == FirstStringField(result)[1]
               n == NormalizeResult(result)
           IN  IF Trim(s) = <<>> THEN ~n.ok
               ELSE /\ n.ok /\ n.text = s
                    /\ SettlesWith(g, result) = PostProcess(s, g.maxTokens)

(***************************************************************************)
(* Claims: truncation                                                      *)
(***************************************************************************)

\* The text generate returned, for a call that resolved with engine text.
ReturnedText == truncatedResponse.val

ReturnedEngineText ==
    /\ tstage = "returned"
    /\ truncatedResponse.outcome = "resolved" /\ ~truncatedResponse.canned

\* C31: truncateAtSentenceBoundary returns its text unchanged when the
\* estimated token count ceil(length / 4) is at most maxTokens, and
\* otherwise a prefix of it without trailing whitespace of at most
\* 4 * maxTokens characters; so the estimated token count of the text a
\* real-engine generate returns is at most maxTokens.
C31_TruncationWithinBudget ==
    ReturnedEngineText
    => /\ IF EstimatedTokens(truncateInput) <= optsMaxTokens
          THEN ReturnedText = truncateInput
          ELSE /\ StartsWith(truncateInput, ReturnedText)
               /\ TrimEnd(ReturnedText) = ReturnedText
               /\ Len(ReturnedText) <= 4 * optsMaxTokens
       /\ EstimatedTokens(ReturnedText) <= optsMaxTokens

\* A text of five or more characters without a sentence end in the budget
\* of four has been cut at its last space within the budget.
C31_Witness ==
    /\ ReturnedEngineText /\ optsMaxTokens = 1
    /\ truncateInput = <<"a", "a", "a", " ", "a", "a">>
    /\ ReturnedText = <<"a", "a", "a">>

\* The returned text is a prefix of the text that stops where a word of
\* the text stops: at the end of the text or before whitespace.
EndsAtWordEnd ==
    /\ StartsWith(truncateInput, ReturnedText)
    /\ \/ Len(ReturnedText) \in {0, Len(truncateInput)}
       \/ IsWS(truncateInput[Len(ReturnedText) + 1])

\* Line 511: the index of the latest space at or before the budget.
LatestSpace == LastIndexOfSpace(truncateInput, optsMaxTokens * 4)

\* C32: when the text is longer than the budget and has no sentence end
\* within it, the returned text does not end inside a word of the text: it
\* ends at the latest space when that space is past 70% of the budget, and
\* otherwise at the budget less the trailing partial word.
C32_NeverCutsInsideWord ==
    (TruncationApplies /\ PunctuationInBudget = {})
    => /\ EndsAtWordEnd
       /\ 10 * LatestSpace > 7 * optsMaxTokens * 4
            => ReturnedText = Trim(SubSeq(truncateInput, 1, LatestSpace))

\* C33: a real-engine generate call that resolves with engine text never
\* resolves with the empty string, whatever non-blank text the engine
\* produced and whatever maxTokens the caller passed.
C33_ReturnedTextNotEmpty ==
    ReturnedEngineText => ReturnedText # <<>>

(***************************************************************************)
(* Claims: ownership of the native session                                 *)
(***************************************************************************)

\* The steps in which lines 581-586 release the session held: cleanup()
\* called directly or by initialize, at once or after its polling loop.
ReleasingSteps == {"cleanup", "cleanupDone", "initialize", "initCleanupDone"}

\* C34: a session the engine holds stops being its current session only
\* in a step that releases it, so that every session obtained from
\* initLlama is the current one or was released, also when initialize
\* calls overlap each other or cleanup at their awaits.
C34_SessionLeavesOnlyByRelease ==
    [][(context # NULL /\ context' # context)
        => ev'.op \in ReleasingSteps]_vars

(***************************************************************************)
(* Claims: after cleanup                                                   *)
(***************************************************************************)

\* C35: once cleanup() has completed the engine stays Uninitialized until
\* initialize is called again: a step that follows the completion of
\* cleanup() and is not a call of initialize leaves isLoaded() false, also
\* when an initialize call made before the cleanup is still suspended.
C35_StaysUninitializedAfterCleanup ==
    [][(CleanupFinished /\ ev'.op # "initialize") => ~isLoaded']_vars

(***************************************************************************)
(* Claims: the batch queue under cleanup and power changes                 *)
(***************************************************************************)

\* C36: a caller waiting in the pending queue is always going to be
\* flushed: whenever the queue is not empty a wait-timer is armed (a flush
\* empties the queue in the step that starts it), under any interleaving
\* of arrivals, power changes, flushes and cleanup().
C36_PendingQueueHasTimer ==
    pendingInferenceQueue # <<>> => timers # {}

\* Apart from the step of cleanup(), no step leaves a non-empty queue
\* without a timer.
OnlyCleanupStrandsQueue ==
    [][(pendingInferenceQueue' # <<>> /\ timers' = {} /\ bev'.op # "cleanup")
        => (pendingInferenceQueue # <<>> /\ timers = {})]_vars

\* C37: at most one call of the batch executor is in progress at any time:
\* a batch is not handed to the executor while the executor call of an
\* earlier batch has not returned.
C37_OneExecutorCallAtATime ==
    Cardinality(executing) <= 1

\* C38: a batch handed to the executor has at most as many items as the
\* maxBatchSize getBatchConfig() yields for the power state at the flush,
\* also when the power state changed while items were pending.
C38_BatchWithinMaxBatchSize ==
    [][\A b \in executing' \ executing :
            Len(b) <= getBatchConfig.maxBatchSize]_vars

----------------------------------------------------------------------------
\* Claims: the recommended delay in the chat flow

\* handleSend: the time the chat flow waits before it calls generate.
handleSendDelay ==
    IF shouldThrottleInference THEN getRecommendedDelay ELSE 0

\* C39: in every power state a nonzero getRecommendedDelay() comes with
\* shouldThrottleInference() true, so the chat flow waits for every nonzero
\* recommended delay before it calls generate.
C39_NonzeroDelayIsApplied ==
    /\ getRecommendedDelay # 0 => shouldThrottleInference
    /\ handleSendDelay = getRecommendedDelay

----------------------------------------------------------------------------
\* Claims: no message duplicated or lost

NoDuplicates(s) == \A i, j \in 1..Len(s) : s[i] = s[j] => i = j

InBoth(m) ==
    /\ \E i \in 1..Len(activeWindow) : activeWindow[i] = m
    /\ \E j \in 1..Len(archivedMessages) : archivedMessages[j] = m

\* C40: after any sequence of addMessage calls with pairwise distinct
\* messages no message is in both the active window and the archive, none
\* is lost (the archive followed by the active window is exactly the added
\* sequence), and no outcome of buildContext holds a message twice.
C40_NoMessageDuplicatedOrLost ==
    /\ NoDuplicates(added)
    /\ \A i \in 1..Len(added) : ~InBoth(added[i])
    /\ archivedMessages \o activeWindow = added
    /\ \A q \in QueryOptions :
            \A out \in buildContext(q) : out.ok => NoDuplicates(out.result)

\* Thirteen distinct messages were added and buildContext returned three
\* archived messages before the ten of the active window.
C40_Witness ==
    /\ Len(added) = 13 /\ NoDuplicates(added)
    /\ Len(archivedMessages) = 3 /\ Len(activeWindow) = 10
    /\ wev.op = "buildContext" /\ wev.ok /\ wev.n = 3

====
